---- MODULE Spec2Model ----
(***************************************************************************)
(* node-detacher: the node reconciliation state machine                    *)
(* (NodeController.Reconcile), the attachment cache                        *)
(* (NodeAttachments.cacheNodeAttachments), the detach and attach           *)
(* orchestrators, pod deletion, and the label-based Nodes variant.         *)
(*                                                                         *)
(* A handler runs as one action.  Every store or registry call it makes    *)
(* is numbered in the order the code issues it; the input F of a handler   *)
(* is the set of call numbers that fail in this run.                       *)
(***************************************************************************)
EXTENDS Integers, Sequences, FiniteSets, TLC

\* ------------------------------------------------------------------ bounds

\* Number of classic load balancers the instance is registered with.
NumCLBs == 1
\* Longest taint list an external actor builds.
MaxTaints == 2
\* Call numbers at which a fault can be injected into one handler run.
MaxCallIndex == 22

\* ------------------------------------------------------- keys and literals

NodeTaintKeyDetaching == <<"node-detacher.variant.run/detaching">>
NodeTaintToBeDeletedByCA == <<"ToBeDeletedByClusterAutoscaler">>
NodeTaintKeyK8sNode == <<"node.kubernetes.io/">>
TaintKeyMaster == <<"node-role.kubernetes.io/master">>
TaintKeyUnreachable == <<"node.kubernetes.io/", "unreachable">>
TaintKeyCustom == <<"dedicated">>
TaintKeyCASuffixed == <<"ToBeDeletedByClusterAutoscaler", "Soon">>

Absent == "absent"
NoPort == <<>>
NoAttachment == [exists |-> FALSE, AwsTargets |-> <<>>, AwsLoadBalancers |-> <<>>]
RFC3339 == "rfc3339"
ControllerName == "node-detacher"

\* strings.HasPrefix over keys written as sequences of segments.
HasPrefix(s, p) == Len(p) <= Len(s) /\ SubSeq(s, 1, Len(p)) = p

SeqToSet(seq) == {seq[i] : i \in 1..Len(seq)}

\* ------------------------------------------------------------ taint helpers

taintNodeAppending(newNode, value) ==
    [newNode EXCEPT !.taints =
        Append(@, [key |-> NodeTaintKeyDetaching, value |-> value])]


taintNode(newNode, value) ==
    IF \E i \in 1..Len(newNode.taints) : newNode.taints[i].key = NodeTaintKeyDetaching
    THEN [newNode EXCEPT !.taints =
            [i \in 1..Len(@) |->
                IF @[i].key = NodeTaintKeyDetaching
                THEN [@[i] EXCEPT !.value = value]
                ELSE @[i]]]
    ELSE [newNode EXCEPT !.taints =
            Append(@, [key |-> NodeTaintKeyDetaching, value |-> value])]

untaintNode(node) ==
    [node EXCEPT !.taints = SelectSeq(@, LAMBDA t : t.key # NodeTaintKeyDetaching)]

\* ------------------------------------------------------------ classification

isMasterNode(node) ==
    \E i \in 1..Len(node.taints) : node.taints[i].key = TaintKeyMaster

nodeBeingDetached(node) ==
    \/ "True" \in node.conditions
    \/ node.detaching = "true"

nodeRequireDetached(node) == node.detached

toBeDeletedByCA(node) ==
    \E i \in 1..Len(node.taints) : node.taints[i].key = NodeTaintToBeDeletedByCA

hasAnyK8sTaint(node) ==
    \E i \in 1..Len(node.taints) : HasPrefix(node.taints[i].key, NodeTaintKeyK8sNode)

ignoredTaintPrefixes ==
    <<NodeTaintToBeDeletedByCA, NodeTaintKeyDetaching, NodeTaintKeyK8sNode>>

hasAnyCustomTaint(node) ==
    \E i \in 1..Len(node.taints) :
        ~ \E j \in 1..Len(ignoredTaintPrefixes) :
            HasPrefix(node.taints[i].key, ignoredTaintPrefixes[j])

nodeIsSchedulableNoCA(node) ==
    /\ ~ node.unschedulable
    /\ ~ hasAnyK8sTaint(node)
    /\ ~ hasAnyCustomTaint(node)
    /\ ~ nodeRequireDetached(node)

nodeIsSchedulableNoK8s(node) ==
    /\ ~ node.unschedulable
    /\ ~ toBeDeletedByCA(node)
    /\ ~ hasAnyCustomTaint(node)
    /\ ~ nodeRequireDetached(node)

nodeIsSchedulable(node) ==
    /\ ~ node.unschedulable
    /\ ~ toBeDeletedByCA(node)
    /\ ~ hasAnyK8sTaint(node)
    /\ ~ hasAnyCustomTaint(node)
    /\ ~ nodeRequireDetached(node)

\* ------------------------------------------------------------------- state

VARIABLES
    nodes,        \* store: node name -> Node object
    attachments,  \* store: node name -> Attachment spec (exists FALSE: none)
    registry,     \* cloud: instance -> the targets it is registered with
    pods,         \* store: node name -> the pods scheduled on it
    config,       \* NodeController flags, fixed at start
    synced,       \* NodeController.synced
    inflight,     \* the Reconcile blocked in deletePods' wg.Wait() (active), if any
    last,         \* what the last returned Reconcile did
    clsIn,        \* classification input of the pure-function specification
    clsOut,       \* its output
    lnodes,       \* label-based variant: node name -> label map and instance
    lregistry,    \* label-based variant: registrations
    llast,        \* label-based variant: what the last Nodes call did
    clast,        \* the cache on its own: the last two NodeAttachments calls
    dsw,          \* daemonset trigger: the daemonset and the last controller run
    mem,          \* in-memory progress variant: the three maps, the cloud, the last call
    cnd,          \* condition-based variant: the node, the cloud, the last Reconcile
    tgt,          \* daemonset targeting: the target list, the pod, the decision
    tnt           \* taint helpers: the node's taints and the last helper call

vars == <<nodes, attachments, registry, pods, config, synced, inflight, last,
          clsIn, clsOut, lnodes, lregistry, llast, clast, dsw,
          mem, cnd, tgt, tnt>>

mainVars == <<nodes, attachments, registry, pods, config, synced, inflight, last>>
clsVars == <<clsIn, clsOut>>
labelVars == <<lnodes, lregistry, llast>>
cacheVars == <<clast>>
dsVars == <<dsw>>
auxVars == <<mem, cnd, tgt, tnt>>

\* --------------------------------------------------------- cloud registry

\* one target group, the instance registered at the default port and at a
\* port of its own: two attachment units
TGUniverse ==
    <<[ARN |-> "arn:tg1", Port |-> NoPort], [ARN |-> "arn:tg1", Port |-> <<8080>>]>>

CLBUniverse == [i \in 1..NumCLBs |-> <<"clb", i>>]

AllRegistered == [tgs |-> SeqToSet(TGUniverse), clbs |-> SeqToSet(CLBUniverse)]

\* ------------------------------------------------------ calls and faults

\* e is computed once and named in what follows
Bind(e, Op(_)) == CHOOSE r \in {Op(v) : v \in {e}} : TRUE

\* The world a handler works on: the stores, the registry, the number of
\* calls made so far, the calls logged, and the nodes written by this run.
World(ns, as, rg, ps) ==
    [nodes |-> ns, attachments |-> as, registry |-> rg, pods |-> ps,
     n |-> 0, trace |-> <<>>, written |-> {}]

\* The next store or registry call: numbered, failing when its number is in F.
Call(w, F) == [ok |-> (w.n + 1) \notin F, w |-> [w EXCEPT !.n = @ + 1]]

Log(w, op, node, arg, ok) ==
    [w EXCEPT !.trace = Append(@, [op |-> op, node |-> node, arg |-> arg, ok |-> ok])]

\* client.Get of a node: fails on a fault or when the node is gone.
GetNode(w, F, name) ==
    Bind(Call(w, F), LAMBDA c :
      [w |-> c.w, err |-> ~ c.ok \/ ~ c.w.nodes[name].exists,
       node |-> c.w.nodes[name]])

\* client.Update of a node object fetched at the start of the run: the store
\* rejects it (Conflict) when the node was written since it was fetched.
UpdateNode(w, F, name, obj, stale) ==
    Bind(Call(w, F), LAMBDA c :
      IF c.ok /\ ~ stale /\ c.w.nodes[name].exists
      THEN [w |-> Log([c.w EXCEPT !.nodes[name] = obj,
                                  !.written = @ \cup {name}],
                      "UpdateNode", name, "", TRUE),
            err |-> FALSE]
      ELSE [w |-> Log(c.w, "UpdateNode", name, "", FALSE), err |-> TRUE])

\* ----------------------------------------------------------- kubernetes.go

getInstanceID(node) == [id |-> node.name, err |-> ~ node.hasInstanceID]

\* ----------------------------------------------------------------- cache.go

Cached(node) == node.cached = "true"

dynamicMode(cfg) ==
    cfg.ALBIngressIntegrationEnabled \/ cfg.DynamicNLBIntegrationEnabled
        \/ cfg.DynamicCLBIntegrationEnabled

staticMode(cfg) == ~ dynamicMode(cfg)

shouldHandleTargetGroups(cfg) ==
    cfg.StaticCLBIntegrationEnabled \/ cfg.ALBIngressIntegrationEnabled
        \/ cfg.DynamicNLBIntegrationEnabled

shouldHandleCLBs(cfg) ==
    cfg.StaticCLBIntegrationEnabled \/ cfg.DynamicCLBIntegrationEnabled

\* aws.go getIdToCLBs: one DescribeLoadBalancersPages call.
getIdToCLBs(w, F, ids) ==
    Bind(Call(w, F), LAMBDA c :
      [w |-> Log(c.w, "DescribeCLBs", "", "", c.ok), err |-> ~ c.ok,
       clbs |-> [id \in ids |->
                  SelectSeq(CLBUniverse, LAMBDA l : l \in c.w.registry[id].clbs)]])

getIdToTGsLenient(w, F, ids) ==
    Bind(Call(w, F), LAMBDA c1 :
      IF ~ c1.ok
      THEN [w |-> Log(c1.w, "DescribeTGs", "", "", FALSE), err |-> FALSE,
            tds |-> [id \in ids |-> <<>>]]
      ELSE Bind(Call(c1.w, F), LAMBDA c2 :
        [w |-> Log(c2.w, "DescribeTGs", "", "", c2.ok), err |-> FALSE,
         tds |-> [id \in ids |->
                   IF c2.ok
                   THEN SelectSeq(TGUniverse, LAMBDA t : t \in c2.w.registry[id].tgs)
                   ELSE <<>>]]))

\* aws.go getIdToTGs: DescribeTargetGroupsPages, then DescribeTargetHealth of
\* the target group.
getIdToTGs(w, F, ids) ==
    Bind(Call(w, F), LAMBDA c1 :
      IF ~ c1.ok
      THEN [w |-> Log(c1.w, "DescribeTGs", "", "", FALSE), err |-> TRUE,
            tds |-> [id \in ids |-> <<>>]]
      ELSE Bind(Call(c1.w, F), LAMBDA c2 :
        [w |-> Log(c2.w, "DescribeTGs", "", "", c2.ok), err |-> ~ c2.ok,
         tds |-> [id \in ids |->
                   SelectSeq(TGUniverse, LAMBDA t : t \in c2.w.registry[id].tgs)]]))

\* client.Update of the Attachment held in memory
updateAttachment(w, F, name, att) ==
    Bind(Call(w, F), LAMBDA c :
      IF c.ok
      THEN [w |-> Log([c.w EXCEPT !.attachments[name] = att],
                      "UpdateAttachment", name, "", TRUE),
            err |-> FALSE]
      ELSE [w |-> Log(c.w, "UpdateAttachment", name, "", FALSE), err |-> TRUE])

createAttachmentOnly(w, F, name, spec) ==
    Bind(Call(w, F), LAMBDA c1 :
      IF ~ c1.ok \/ c1.w.attachments[name].exists
      THEN [w |-> Log(c1.w, "CreateAttachment", name, "", FALSE), err |-> TRUE]
      ELSE [w |-> Log([c1.w EXCEPT !.attachments[name] = spec],
                      "CreateAttachment", name, "", TRUE),
            err |-> FALSE])

\* client.Create of the Attachment, and on AlreadyExists the Get and the
\* Update that overwrites the stored spec (cache.go 141-160).
createOrUpdateAttachment(w, F, name, spec) ==
    Bind(Call(w, F), LAMBDA c1 :
      IF ~ c1.ok
      THEN [w |-> Log(c1.w, "CreateAttachment", name, "", FALSE), err |-> TRUE]
      ELSE IF ~ c1.w.attachments[name].exists
      THEN [w |-> Log([c1.w EXCEPT !.attachments[name] = spec],
                      "CreateAttachment", name, "", TRUE),
            err |-> FALSE]
      ELSE Bind(Call(c1.w, F), LAMBDA c2 :
        IF ~ c2.ok THEN [w |-> c2.w, err |-> TRUE]
        ELSE updateAttachment(c2.w, F, name, spec)))

\* cache.go 162-173: fetch the latest node, label it cached and annotate it
\* detaching, update it.
markCached(w, F, name) ==
    Bind(GetNode(w, F, name), LAMBDA g :
      IF g.err THEN [w |-> g.w, err |-> TRUE]
      ELSE UpdateNode(g.w, F, name,
                      [g.node EXCEPT !.cached = "true", !.detaching = "true"],
                      FALSE))

attachmentForFirstOfGroup(name, clbs, tds) ==
    [exists |-> TRUE,
     AwsTargets |->
       IF name \in DOMAIN tds /\ Len(tds[name]) > 0
       THEN <<[ARN |-> tds[name][1].ARN, Port |-> tds[name][1].Port,
               Detached |-> FALSE]>>
       ELSE <<>>,
     AwsLoadBalancers |->
       IF name \in DOMAIN clbs
       THEN [k \in 1..Len(clbs[name]) |-> [Name |-> clbs[name][k], Detached |-> FALSE]]
       ELSE <<>>]

\* cache.go 114-139: the Attachment built for a node; nodeToInstance has no
\* entry for a node skipped as cached
attachmentFor(name, clbs, tds) ==
    [exists |-> TRUE,
     AwsTargets |->
       IF name \in DOMAIN tds
       THEN [k \in 1..Len(tds[name]) |->
               [ARN |-> tds[name][k].ARN, Port |-> tds[name][k].Port,
                Detached |-> FALSE]]
       ELSE <<>>,
     AwsLoadBalancers |->
       IF name \in DOMAIN clbs
       THEN [k \in 1..Len(clbs[name]) |-> [Name |-> clbs[name][k], Detached |-> FALSE]]
       ELSE <<>>]

RECURSIVE cacheLoop(_, _, _, _, _, _)
\* cache.go 112-176: for every node passed in, cached or not
cacheLoop(w, F, ns, i, clbs, tds) ==
    IF i > Len(ns) THEN [w |-> w, err |-> FALSE]
    ELSE
      Bind(createOrUpdateAttachment(w, F, ns[i].name,
                                    attachmentFor(ns[i].name, clbs, tds)), LAMBDA a :
        IF a.err THEN [w |-> a.w, err |-> TRUE]
        ELSE Bind(markCached(a.w, F, ns[i].name), LAMBDA m :
          IF m.err THEN [w |-> m.w, err |-> TRUE]
          ELSE cacheLoop(m.w, F, ns, i + 1, clbs, tds)))

\* cache.go 58-111: the nodes not yet cached, and their targets
resolveUncached(w, F, uncached, ids, cfg) ==
    Bind(IF shouldHandleCLBs(cfg) THEN getIdToCLBs(w, F, ids)
         ELSE [w |-> w, err |-> FALSE, clbs |-> << >>], LAMBDA c :
      IF c.err THEN [w |-> c.w, err |-> TRUE, clbs |-> << >>, tds |-> << >>]
      ELSE Bind(IF shouldHandleTargetGroups(cfg) THEN getIdToTGs(c.w, F, ids)
                ELSE [w |-> c.w, err |-> FALSE, tds |-> << >>], LAMBDA t :
        [w |-> t.w, err |-> t.err, clbs |-> c.clbs, tds |-> t.tds]))

\* cache.go 58-179; ns is the sequence of node objects the caller holds
cacheNodeAttachments(w, F, ns, cfg) ==
    Bind(SelectSeq(ns, LAMBDA x : ~ Cached(x)), LAMBDA uncached :
      IF \E i \in 1..Len(uncached) : getInstanceID(uncached[i]).err
      THEN [w |-> w, err |-> TRUE]
      ELSE IF Len(uncached) = 0
      THEN [w |-> w, err |-> FALSE]
      ELSE Bind(resolveUncached(w, F, uncached,
                                {uncached[i].name : i \in 1..Len(uncached)}, cfg),
                LAMBDA r :
        IF r.err THEN [w |-> r.w, err |-> TRUE]
        ELSE cacheLoop(r.w, F, ns, 1, r.clbs, r.tds)))

\* client.List of the nodes, in the order the store returns them
listNodes(w) ==
    Bind(CHOOSE s \in [1..Cardinality(DOMAIN w.nodes) -> DOMAIN w.nodes] :
            \A i, j \in DOMAIN s : i # j => s[i] # s[j], LAMBDA names :
      SelectSeq([i \in DOMAIN names |-> w.nodes[names[i]]], LAMBDA x : x.exists))

\* cache.go 46-56: list every node, then cache them all
cacheAllNodeAttachments(w, F, cfg) ==
    Bind(Call(w, F), LAMBDA c :
      IF ~ c.ok THEN [w |-> c.w, err |-> TRUE]
      ELSE Bind(listNodes(c.w), LAMBDA items :
        cacheNodeAttachments(c.w, F, items, cfg)))

\* ------------------------------------------------- detach (NodeAttachments)

\* aws.go deregisterInstanceFromTG / deregisterInstancesFromTGs: one
\* DeregisterTargets call naming the instance and, when the entry has one,
\* the port.
deregisterTG(w, F, name, t) ==
    Bind(Call(w, F), LAMBDA c :
      IF c.ok
      THEN [w |-> Log([c.w EXCEPT !.registry[name].tgs =
                                     @ \ {[ARN |-> t.ARN, Port |-> t.Port]}],
                      "DeregisterTG", name, [ARN |-> t.ARN, Port |-> t.Port], TRUE),
            err |-> FALSE]
      ELSE [w |-> Log(c.w, "DeregisterTG", name, [ARN |-> t.ARN, Port |-> t.Port], FALSE),
            err |-> TRUE])

\* aws.go deregisterInstancesFromCLBs
deregisterCLB(w, F, name, l) ==
    Bind(Call(w, F), LAMBDA c :
      IF c.ok
      THEN [w |-> Log([c.w EXCEPT !.registry[name].clbs = @ \ {l.Name}],
                      "DeregisterCLB", name, l.Name, TRUE),
            err |-> FALSE]
      ELSE [w |-> Log(c.w, "DeregisterCLB", name, l.Name, FALSE), err |-> TRUE])

\* aws.go attachInstanceToTG
registerTG(w, F, name, t) ==
    Bind(Call(w, F), LAMBDA c :
      IF c.ok
      THEN [w |-> Log([c.w EXCEPT !.registry[name].tgs =
                                     @ \cup {[ARN |-> t.ARN, Port |-> t.Port]}],
                      "RegisterTG", name, [ARN |-> t.ARN, Port |-> t.Port], TRUE),
            err |-> FALSE]
      ELSE [w |-> Log(c.w, "RegisterTG", name, [ARN |-> t.ARN, Port |-> t.Port], FALSE),
            err |-> TRUE])

\* aws.go registerInstancesToCLBs
registerCLB(w, F, name, l) ==
    Bind(Call(w, F), LAMBDA c :
      IF c.ok
      THEN [w |-> Log([c.w EXCEPT !.registry[name].clbs = @ \cup {l.Name}],
                      "RegisterCLB", name, l.Name, TRUE),
            err |-> FALSE]
      ELSE [w |-> Log(c.w, "RegisterCLB", name, l.Name, FALSE), err |-> TRUE])

excludeFromBalancerUnchecked(w, F, name) ==
    Bind(GetNode(w, F, name), LAMBDA g :
      IF g.err THEN [w |-> g.w, err |-> FALSE]
      ELSE [w |-> UpdateNode(g.w, F, name, [g.node EXCEPT !.excludeBalancer = TRUE],
                             FALSE).w,
            err |-> FALSE])

\* detach 229-240: fetch the latest node, label it excluded from the
\* balancer, update it
excludeFromBalancer(w, F, name) ==
    Bind(GetNode(w, F, name), LAMBDA g :
      IF g.err THEN [w |-> g.w, err |-> TRUE]
      ELSE UpdateNode(g.w, F, name, [g.node EXCEPT !.excludeBalancer = TRUE], FALSE))

skipDetachedNever(e) == FALSE

\* detach 223, 262: an entry already detached is skipped
skipDetached(e) == e.Detached

RECURSIVE detachTargets(_, _, _, _, _, _)
\* detach 222-259: the loop over attachment.Spec.AwsTargets
detachTargets(w, F, name, att, i, ups) ==
    IF i > Len(att.AwsTargets) THEN [w |-> w, err |-> FALSE, att |-> att, ups |-> ups]
    ELSE IF skipDetached(att.AwsTargets[i])
    THEN detachTargets(w, F, name, att, i + 1, ups)
    ELSE
      Bind(excludeFromBalancer(w, F, name), LAMBDA x :
        IF x.err THEN [w |-> x.w, err |-> TRUE, att |-> att, ups |-> ups]
        ELSE Bind(deregisterTG(x.w, F, name, att.AwsTargets[i]), LAMBDA d :
          IF d.err THEN [w |-> d.w, err |-> TRUE, att |-> att, ups |-> ups]
          ELSE detachTargets(d.w, F, name,
                             [att EXCEPT !.AwsTargets[i].Detached = TRUE],
                             i + 1, ups + 1)))

RECURSIVE detachLoadBalancers(_, _, _, _, _, _)
\* detach 261-273: the loop over attachment.Spec.AwsLoadBalancers
detachLoadBalancers(w, F, name, att, i, ups) ==
    IF i > Len(att.AwsLoadBalancers) THEN [w |-> w, err |-> FALSE, att |-> att, ups |-> ups]
    ELSE IF skipDetached(att.AwsLoadBalancers[i])
    THEN detachLoadBalancers(w, F, name, att, i + 1, ups)
    ELSE
      Bind(deregisterCLB(w, F, name, att.AwsLoadBalancers[i]), LAMBDA d :
        IF d.err THEN [w |-> d.w, err |-> TRUE, att |-> att, ups |-> ups]
        ELSE detachLoadBalancers(d.w, F, name,
                                 [att EXCEPT !.AwsLoadBalancers[i].Detached = TRUE],
                                 i + 1, ups + 1))

\* detach 275-281: the Attachment is updated when an entry was flipped
persistDetached(w, F, name, att, ups) ==
    IF ups > 0
    THEN Bind(updateAttachment(w, F, name, att), LAMBDA u :
           [w |-> u.w, processed |-> ~ u.err, err |-> u.err])
    ELSE [w |-> w, processed |-> FALSE, err |-> FALSE]

\* NodeAttachments.detachNodes for the one node Reconcile passes; node is the
\* object the caller holds.  Returns (processed, err).
detachNodes(w, F, node) ==
    IF getInstanceID(node).err
    THEN [w |-> w, processed |-> FALSE, err |-> TRUE]
    ELSE
      Bind(Call(w, F), LAMBDA c :            \* client.Get of the Attachment
        IF ~ c.ok \/ ~ c.w.attachments[node.name].exists
        THEN [w |-> c.w, processed |-> FALSE, err |-> FALSE]
        ELSE Bind(detachTargets(c.w, F, node.name, c.w.attachments[node.name], 1, 0),
                  LAMBDA t :
          IF t.err THEN [w |-> t.w, processed |-> FALSE, err |-> TRUE]
          ELSE Bind(detachLoadBalancers(t.w, F, node.name, t.att, 1, t.ups), LAMBDA l :
            IF l.err THEN [w |-> l.w, processed |-> FALSE, err |-> TRUE]
            ELSE persistDetached(l.w, F, node.name, l.att, l.ups))))

\* ------------------------------------------------- attach (NodeAttachments)
\* NodeAttachments.attachNodes is called by Reconcile (node_controller.go 379)
\* and is not among the sources; it is written from the design: the mirror of
\* detach, un-excluding the node before each target-group registration, and
\* persisting the progress made also when a later entry fails.

includeInBalancer(w, F, name) ==
    Bind(GetNode(w, F, name), LAMBDA g :
      IF g.err THEN [w |-> g.w, err |-> TRUE]
      ELSE UpdateNode(g.w, F, name, [g.node EXCEPT !.excludeBalancer = FALSE], FALSE))

RECURSIVE attachTargets(_, _, _, _, _, _)
attachTargets(w, F, name, att, i, ups) ==
    IF i > Len(att.AwsTargets) THEN [w |-> w, err |-> FALSE, att |-> att, ups |-> ups]
    ELSE IF ~ att.AwsTargets[i].Detached
    THEN attachTargets(w, F, name, att, i + 1, ups)
    ELSE
      Bind(includeInBalancer(w, F, name), LAMBDA x :
        IF x.err THEN [w |-> x.w, err |-> TRUE, att |-> att, ups |-> ups]
        ELSE Bind(registerTG(x.w, F, name, att.AwsTargets[i]), LAMBDA r :
          IF r.err THEN [w |-> r.w, err |-> TRUE, att |-> att, ups |-> ups]
          ELSE attachTargets(r.w, F, name,
                             [att EXCEPT !.AwsTargets[i].Detached = FALSE],
                             i + 1, ups + 1)))

RECURSIVE attachLoadBalancers(_, _, _, _, _, _)
attachLoadBalancers(w, F, name, att, i, ups) ==
    IF i > Len(att.AwsLoadBalancers) THEN [w |-> w, err |-> FALSE, att |-> att, ups |-> ups]
    ELSE IF ~ att.AwsLoadBalancers[i].Detached
    THEN attachLoadBalancers(w, F, name, att, i + 1, ups)
    ELSE
      Bind(registerCLB(w, F, name, att.AwsLoadBalancers[i]), LAMBDA r :
        IF r.err THEN [w |-> r.w, err |-> TRUE, att |-> att, ups |-> ups]
        ELSE attachLoadBalancers(r.w, F, name,
                                 [att EXCEPT !.AwsLoadBalancers[i].Detached = FALSE],
                                 i + 1, ups + 1))

\* the progress made is persisted, whether or not an entry failed
persistAttached(w, F, name, att, ups, failed) ==
    IF ups > 0
    THEN Bind(updateAttachment(w, F, name, att), LAMBDA u :
           [w |-> u.w, err |-> failed \/ u.err])
    ELSE [w |-> w, err |-> failed]

attachNodes(w, F, node) ==
    IF getInstanceID(node).err
    THEN [w |-> w, err |-> TRUE]
    ELSE
      Bind(Call(w, F), LAMBDA c :            \* client.Get of the Attachment
        IF ~ c.ok \/ ~ c.w.attachments[node.name].exists
        THEN [w |-> c.w, err |-> TRUE]
        ELSE Bind(attachTargets(c.w, F, node.name, c.w.attachments[node.name], 1, 0),
                  LAMBDA t :
          IF t.err THEN persistAttached(t.w, F, node.name, t.att, t.ups, TRUE)
          ELSE Bind(attachLoadBalancers(t.w, F, node.name, t.att, 1, t.ups), LAMBDA l :
            persistAttached(l.w, F, node.name, l.att, l.ups, l.err))))

\* --------------------------------------------------------------- deletePods

Perms(S) ==
    {s \in [1..Cardinality(S) -> S] : \A i, j \in 1..Cardinality(S) : i # j => s[i] # s[j]}

\* the pods client.List returns for the node
listPods(ps) == SelectSeq(ps, LAMBDA p : ~ p.gone)

\* the keys of prioritizedPods: pods without the deletion-priority
\* annotation are skipped (deletePods 42-57)
podLevels(ps) == {p.pri : p \in {q \in SeqToSet(listPods(ps)) : q.hasPri}}

markTerminating(w, name, pod) ==
    [w EXCEPT !.pods[name] =
        [i \in 1..Len(@) |->
            IF @[i].name = pod THEN [@[i] EXCEPT !.terminating = TRUE] ELSE @[i]]]

podGone(w, name, pod) ==
    \A i \in 1..Len(w.pods[name]) : w.pods[name][i].name = pod => w.pods[name][i].gone

RECURSIVE evictLevel(_, _, _, _, _)
\* deletePods 81-133: evict or delete every pod of one priority level
evictLevel(w, F, name, lvl, i) ==
    IF i > Len(lvl) THEN [w |-> w, err |-> FALSE]
    ELSE IF lvl[i].terminating THEN evictLevel(w, F, name, lvl, i + 1)
    ELSE
      Bind(Call(w, F), LAMBDA c :
      Bind(IF lvl[i].disableEviction THEN "DeletePod" ELSE "EvictPod", LAMBDA op :
        IF ~ c.ok \/ (podGone(c.w, name, lvl[i].name) /\ lvl[i].disableEviction)
        THEN [w |-> Log(c.w, op, name, lvl[i].name, FALSE), err |-> TRUE]
        ELSE IF podGone(c.w, name, lvl[i].name)
        THEN evictLevel(Log(c.w, op, name, lvl[i].name, FALSE), F, name, lvl, i + 1)
        ELSE Bind(Log(markTerminating(c.w, name, lvl[i].name),
                      op, name, lvl[i].name, TRUE), LAMBDA m :
               evictLevel(m, F, name, lvl, i + 1))))

\* ---------------------------------------------------- what a run reports

ZeroNode(name) ==
    [name |-> name, exists |-> FALSE, hasInstanceID |-> FALSE, cached |-> Absent,
     excludeBalancer |-> FALSE, detaching |-> Absent, detached |-> FALSE,
     detachmentTimestamp |-> Absent, attachmentTimestamp |-> Absent,
     unschedulable |-> FALSE, taints |-> <<>>, conditions |-> {}]

NoDetach ==
    [called |-> FALSE, pre |-> NoAttachment, processed |-> FALSE, err |-> FALSE,
     calls |-> <<>>]

NoAttach == [called |-> FALSE, err |-> FALSE, calls |-> <<>>]

Ghost(name, copy, path, manage) ==
    [node |-> name, copy |-> copy, path |-> path, manage |-> manage,
     detach |-> NoDetach, attach |-> NoAttach, podsErr |-> FALSE]

IdleLast ==
    [g |-> Ghost("", ZeroNode(""), "idle", FALSE), err |-> FALSE, requeue |-> "",
     trace |-> <<>>, faulted |-> FALSE]

IdleFlight ==
    [active |-> FALSE, g |-> Ghost("", ZeroNode(""), "idle", FALSE), listed |-> <<>>,
     order |-> <<>>, waiting |-> {}, trace |-> <<>>, stale |-> FALSE,
     faulted |-> FALSE]

Faulted(w, F) == \E k \in F : k <= w.n

\* the handler returns
Return(w, F, g, err, requeue, faulted) ==
    [w |-> w, inflight |-> IdleFlight,
     last |-> [g |-> g, err |-> err, requeue |-> requeue, trace |-> w.trace,
               faulted |-> faulted \/ Faulted(w, F)]]

\* the handler blocks in wg.Wait() (deletePods 134-152)
Block(w, F, g, listed, order, waiting, stale, faulted) ==
    [w |-> w,
     inflight |-> [active |-> TRUE, g |-> g, listed |-> listed, order |-> order,
                   waiting |-> waiting, trace |-> w.trace,
                   stale |-> stale \/ g.node \in w.written,
                   faulted |-> faulted \/ Faulted(w, F)],
     last |-> IdleLast]

\* ------------------------------------------------- NodeController.Reconcile

\* node_controller.go 448-469: the node object written by the Detaching path
markDetaching(copy, value) ==
    taintNode([copy EXCEPT !.detaching = "true",
                           !.detachmentTimestamp = RFC3339,
                           !.attachmentTimestamp = Absent,
                           !.conditions = @ \cup {"False"}],
              value)

markAttachedKeepTaint(copy) ==
    [copy EXCEPT !.detaching = "false",
                 !.attachmentTimestamp = RFC3339,
                 !.detachmentTimestamp = Absent,
                 !.conditions = @ \cup {"False"},
                 !.cached = "false"]

\* node_controller.go 398-415: the node object written by the Reattaching path
markAttached(copy) ==
    untaintNode([copy EXCEPT !.detaching = "false",
                             !.attachmentTimestamp = RFC3339,
                             !.detachmentTimestamp = Absent,
                             !.conditions = @ \cup {"False"},
                             !.cached = "false"])

finishAfterPodsAlwaysMark(w, F, g, stale, faulted) ==
    Bind(UpdateNode(w, F, g.node, markDetaching(g.copy, ControllerName),
                    stale \/ g.node \in w.written), LAMBDA u :
      Return(u.w, F, g, u.err, "", faulted))

\* node_controller.go 444-482 (and 433 for a node already being detached):
\* what follows detachAll
finishAfterPods(w, F, g, stale, faulted) ==
    IF g.path = "ensure" THEN Return(w, F, g, FALSE, "", faulted)
    ELSE Bind(UpdateNode(w, F, g.node, markDetaching(g.copy, ControllerName),
                         stale \/ g.node \in w.written), LAMBDA u :
           Return(u.w, F, g, u.err, "", faulted))

\* deletePods 76-153, from the priority level at the head of order on
continuePods(w, F, g, listed, order, stale, faulted) ==
    IF Len(order) = 0 THEN finishAfterPods(w, F, g, stale, faulted)
    ELSE
      Bind(SelectSeq(listed, LAMBDA p : p.hasPri /\ p.pri = Head(order)), LAMBDA lvl :
      Bind(evictLevel(w, F, g.node, lvl, 1), LAMBDA e :
        IF e.err THEN Return(e.w, F, [g EXCEPT !.podsErr = TRUE], TRUE, "1s", faulted)
        ELSE Block(e.w, F, g, listed, Tail(order),
                   {lvl[i].name : i \in 1..Len(lvl)}, stale, faulted)))

\* deleteDSPods without the check of the requires-detached annotation
deleteDSPodsAlways(w, F, g, order) ==
    Bind(Call(w, F), LAMBDA c :
      IF ~ c.ok THEN Return(c.w, F, [g EXCEPT !.podsErr = TRUE], TRUE, "1s", FALSE)
      ELSE Bind(listPods(c.w.pods[g.node]), LAMBDA listed :
             continuePods(c.w, F, g, listed, order, FALSE, FALSE)))

\* node_controller.go 337-347 deleteDSPods, and deletePods 23-37
deleteDSPods(w, F, g, order) ==
    IF nodeRequireDetached(g.copy) THEN finishAfterPods(w, F, g, FALSE, FALSE)
    ELSE
      Bind(Call(w, F), LAMBDA c :
        IF ~ c.ok THEN Return(c.w, F, [g EXCEPT !.podsErr = TRUE], TRUE, "1s", FALSE)
        ELSE Bind(listPods(c.w.pods[g.node]), LAMBDA listed :
               continuePods(c.w, F, g, listed, order, FALSE, FALSE)))

\* what detachNodes was given and did
detachGhost(g, k, d) ==
    [g EXCEPT !.detach =
        [called |-> TRUE, pre |-> k.attachments[g.node],
         processed |-> d.processed, err |-> d.err,
         calls |-> SubSeq(d.w.trace, Len(k.trace) + 1, Len(d.w.trace))]]

\* detachAll going on to the pods whatever detachNode returned
detachAllIgnoringError(w, F, g, cfg, order) ==
    IF ~ g.manage THEN deleteDSPods(w, F, g, order)
    ELSE
      Bind(IF dynamicMode(cfg) THEN cacheNodeAttachments(w, F, <<g.copy>>, cfg).w
           ELSE w, LAMBDA k :
      Bind(detachNodes(k, F, g.copy), LAMBDA d :
        deleteDSPods(d.w, F, detachGhost(g, k, d), order)))

\* node_controller.go 301-335 detachNode, then 349-359 detachAll
detachAll(w, F, g, cfg, order) ==
    IF ~ g.manage THEN deleteDSPods(w, F, g, order)
    ELSE
      Bind(IF dynamicMode(cfg) THEN cacheNodeAttachments(w, F, <<g.copy>>, cfg).w
           ELSE w, LAMBDA k :
      Bind(detachNodes(k, F, g.copy), LAMBDA d :
      Bind(detachGhost(g, k, d), LAMBDA gd :
        IF d.err THEN Return(d.w, F, gd, TRUE, "1s", FALSE)
        ELSE deleteDSPods(d.w, F, gd, order))))

\* what attachNodes did
attachGhost(g, w, a) ==
    [g EXCEPT !.attach =
        [called |-> TRUE, err |-> a.err,
         calls |-> SubSeq(a.w.trace, Len(w.trace) + 1, Len(a.w.trace))]]

\* node_controller.go 398-424: the node is updated from the copy fetched at
\* the start of the run
persistAttachedNode(w, F, g) ==
    Bind(UpdateNode(w, F, g.node, markAttached(g.copy), g.node \in w.written),
         LAMBDA u : Return(u.w, F, g, u.err, "", FALSE))

\* node_controller.go 361-386 attachNode, then 398-424
reattach(w, F, g) ==
    IF ~ g.manage THEN persistAttachedNode(w, F, g)
    ELSE
      Bind(attachNodes(w, F, g.copy), LAMBDA a :
      Bind(attachGhost(g, w, a), LAMBDA ga :
        IF a.err THEN Return(a.w, F, ga, TRUE, "5s", FALSE)
        ELSE persistAttachedNode(a.w, F, ga)))

classifyNeverLeftAlone(copy) ==
    IF nodeBeingDetached(copy)
    THEN IF nodeIsSchedulable(copy) THEN "reattach" ELSE "ensure"
    ELSE "detaching"

\* node_controller.go 388-442: the branch taken
classify(copy) ==
    IF nodeBeingDetached(copy)
    THEN IF nodeIsSchedulable(copy) THEN "reattach" ELSE "ensure"
    ELSE IF nodeIsSchedulable(copy) THEN "noop" ELSE "detaching"

\* node_controller.go 191-209: caching in static mode, errors only logged
cacheOnInit(w, F, copy, cfg, isSynced) ==
    Bind(IF ~ isSynced /\ staticMode(cfg)
         THEN cacheAllNodeAttachments(w, F, cfg).w
         ELSE w, LAMBDA a :
      IF staticMode(cfg) /\ ~ Cached(copy)
      THEN cacheNodeAttachments(a, F, <<copy>>, cfg).w
      ELSE a)

manageAttachmentWithoutID(cfg, copy) == cfg.AWSEnabled

\* node_controller.go 185-189
manageAttachment(cfg, copy) == cfg.AWSEnabled /\ ~ getInstanceID(copy).err

\* node_controller.go 211-483: from the master check on
dispatch(w, F, g, cfg, order) ==
    IF g.path \in {"master", "noop"} THEN Return(w, F, g, FALSE, "", FALSE)
    ELSE IF g.path = "reattach" THEN reattach(w, F, g)
    ELSE detachAll(w, F, g, cfg, order)

IgnoreNotFoundNever(notFound) == TRUE

\* client.IgnoreNotFound (node_controller.go 182): whether the failed Get is
\* returned as an error
IgnoreNotFound(notFound) == ~ notFound

\* the whole of NodeController.Reconcile up to its return, or up to the
\* point where it blocks waiting for pods to disappear
ReconcileRun(w, F, name, cfg, isSynced, order) ==
    Bind(Call(w, F), LAMBDA c :               \* r.Get of the node
      IF ~ c.ok
      THEN Return(c.w, F, Ghost(name, ZeroNode(name), "geterror", FALSE),
                  IgnoreNotFound(FALSE), "", FALSE)
      ELSE IF ~ c.w.nodes[name].exists
      THEN Return(c.w, F, Ghost(name, ZeroNode(name), "notfound", FALSE),
                  IgnoreNotFound(TRUE), "", FALSE)
      ELSE
        Bind(c.w.nodes[name], LAMBDA copy :
        Bind(IF manageAttachment(cfg, copy)
             THEN cacheOnInit(c.w, F, copy, cfg, isSynced) ELSE c.w, LAMBDA k :
        Bind(Ghost(name, copy,
                   IF isMasterNode(copy) THEN "master" ELSE classify(copy),
                   manageAttachment(cfg, copy)), LAMBDA g :
          dispatch(k, F, g, cfg, order)))))

\* node_controller.go 192-200: r.synced after the run
syncedAfter(w, F, name, cfg, isSynced) ==
    Bind(Call(w, F), LAMBDA c :
      isSynced \/ (c.ok /\ c.w.nodes[name].exists
                   /\ manageAttachment(cfg, c.w.nodes[name]) /\ staticMode(cfg)))

\* ------------------------------------------------------------ the scenarios

NodeNames == {"n1"}

\* the taints other actors put on a node and take away again
EnvTaintKeys == {NodeTaintToBeDeletedByCA}

NewNode(name, hasId, master) ==
    [ZeroNode(name) EXCEPT !.exists = TRUE, !.hasInstanceID = hasId,
        !.taints = IF master THEN <<[key |-> TaintKeyMaster, value |-> ""]>> ELSE <<>>]

Flags(aws, alb, nlb, dclb, sclb) ==
    [AWSEnabled |-> aws, ALBIngressIntegrationEnabled |-> alb,
     DynamicNLBIntegrationEnabled |-> nlb, DynamicCLBIntegrationEnabled |-> dclb,
     StaticCLBIntegrationEnabled |-> sclb]

\* the flag defaults (every integration enabled: dynamic mode) without and
\* with AWSEnabled, and static mode: only the static integrations enabled
ConfigOff == Flags(FALSE, TRUE, TRUE, TRUE, TRUE)
ConfigDynamic == Flags(TRUE, TRUE, TRUE, TRUE, TRUE)
ConfigStatic == Flags(TRUE, FALSE, FALSE, FALSE, TRUE)

Pod(name, hasPri, pri, disableEviction) ==
    [name |-> name, hasPri |-> hasPri, pri |-> pri, disableEviction |-> disableEviction,
     terminating |-> FALSE, gone |-> FALSE]

NoPods == <<>>

OnePod == <<Pod("a", TRUE, 1, FALSE)>>

SomePods == <<Pod("a", TRUE, 1, FALSE), Pod("b", TRUE, 2, TRUE), Pod("c", FALSE, 0, FALSE)>>

\* the starting points: flags, the node, its pods
Scenarios ==
    {[config |-> ConfigOff, node |-> NewNode("n1", TRUE, FALSE), pods |-> SomePods],
     [config |-> ConfigOff, node |-> NewNode("n1", TRUE, TRUE), pods |-> NoPods],
     [config |-> ConfigDynamic, node |-> NewNode("n1", TRUE, FALSE), pods |-> OnePod],
     [config |-> ConfigDynamic, node |-> NewNode("n1", FALSE, FALSE), pods |-> OnePod],
     [config |-> ConfigDynamic, node |-> NewNode("n1", TRUE, TRUE), pods |-> NoPods],
     [config |-> ConfigStatic, node |-> NewNode("n1", TRUE, FALSE), pods |-> NoPods],
     [config |-> ConfigStatic, node |-> NewNode("n1", TRUE, TRUE), pods |-> SomePods]}

Faults == {{}} \cup {{k} : k \in 1..MaxCallIndex}

ClsIdle == [unschedulable |-> FALSE, taints |-> <<>>, detached |-> FALSE]

OtherIdle ==
    /\ clsIn = ClsIdle
    /\ clsOut = "none"
    /\ lnodes = <<>>
    /\ lregistry = <<>>
    /\ llast = <<>>
    /\ clast = <<>>
    /\ dsw = <<>>
    /\ mem = <<>>
    /\ cnd = <<>>
    /\ tgt = <<>>
    /\ tnt = <<>>

Init ==
    /\ \E sc \in Scenarios :
         /\ config = sc.config
         /\ nodes = [n \in NodeNames |-> sc.node]
         /\ pods = [n \in NodeNames |-> sc.pods]
    /\ attachments = [n \in NodeNames |-> NoAttachment]
    /\ registry = [n \in NodeNames |-> AllRegistered]
    /\ synced = FALSE
    /\ inflight = IdleFlight
    /\ last = IdleLast
    /\ OtherIdle

\* ---------------------------------------------------------------- actions

Apply(out) ==
    /\ nodes' = out.w.nodes
    /\ attachments' = out.w.attachments
    /\ registry' = out.w.registry
    /\ pods' = out.w.pods
    /\ inflight' = out.inflight
    /\ last' = out.last

\* the work queue hands the node to the (single) worker
Reconcile(n) ==
    /\ ~ inflight.active
    /\ \E F \in Faults : \E order \in Perms(podLevels(pods[n])) :
       \E w \in {World(nodes, attachments, registry, pods)} :
         /\ \E out \in {ReconcileRun(w, F, n, config, synced, order)} : Apply(out)
         /\ synced' = syncedAfter(w, F, n, config, synced)
    /\ UNCHANGED <<config, clsVars, labelVars, cacheVars, dsVars, auxVars>>

\* every pod of the level waited for is gone: wg.Wait() returns and
\* deletePods goes on with the next level
ReconcileResume ==
    /\ inflight.active
    /\ \A p \in inflight.waiting :
           podGone(World(nodes, attachments, registry, pods), inflight.g.node, p)
    /\ \E F \in Faults :
       \E w \in {[World(nodes, attachments, registry, pods)
                    EXCEPT !.trace = inflight.trace]} :
         \E out \in {continuePods(w, F, inflight.g, inflight.listed, inflight.order,
                                   inflight.stale, inflight.faulted)} : Apply(out)
    /\ UNCHANGED <<config, synced, clsVars, labelVars, cacheVars, dsVars, auxVars>>

\* another actor writes the node: a blocked Reconcile's copy goes stale
EnvWrite(n, node) ==
    /\ nodes[n].exists
    /\ nodes' = [nodes EXCEPT ![n] = node]
    /\ inflight' = IF inflight.active /\ inflight.g.node = n
                   THEN [inflight EXCEPT !.stale = TRUE]
                   ELSE inflight
    /\ last' = IdleLast
    /\ UNCHANGED <<attachments, registry, pods, config, synced, clsVars, labelVars, cacheVars, dsVars, auxVars>>

Cordon(n) ==
    /\ ~ nodes[n].unschedulable
    /\ EnvWrite(n, [nodes[n] EXCEPT !.unschedulable = TRUE])

Uncordon(n) ==
    /\ nodes[n].unschedulable
    /\ EnvWrite(n, [nodes[n] EXCEPT !.unschedulable = FALSE])

AddTaint(n, key) ==
    /\ Len(nodes[n].taints) < MaxTaints
    /\ \A i \in 1..Len(nodes[n].taints) : nodes[n].taints[i].key # key
    /\ EnvWrite(n, [nodes[n] EXCEPT !.taints = Append(@, [key |-> key, value |-> ""])])

RemoveTaint(n, key) ==
    /\ \E i \in 1..Len(nodes[n].taints) : nodes[n].taints[i].key = key
    /\ EnvWrite(n, [nodes[n] EXCEPT !.taints = SelectSeq(@, LAMBDA t : t.key # key)])

DeleteNode(n) ==
    /\ nodes[n].exists
    /\ ~ inflight.active
    /\ nodes' = [nodes EXCEPT ![n] = ZeroNode(n)]
    /\ last' = IdleLast
    /\ UNCHANGED <<attachments, registry, pods, config, synced, inflight, clsVars, labelVars, cacheVars, dsVars, auxVars>>

\* the kubelet finishes terminating a pod
PodDisappears(n, i) ==
    /\ pods[n][i].terminating
    /\ ~ pods[n][i].gone
    /\ pods' = [pods EXCEPT ![n][i].gone = TRUE]
    /\ last' = IdleLast
    /\ UNCHANGED <<nodes, attachments, registry, config, synced, inflight, clsVars, labelVars, cacheVars, dsVars, auxVars>>

Next ==
    \/ \E n \in NodeNames : Reconcile(n)
    \/ ReconcileResume
    \/ \E n \in NodeNames : Cordon(n)
    \/ \E n \in NodeNames : Uncordon(n)
    \/ \E n \in NodeNames : \E key \in EnvTaintKeys : AddTaint(n, key)
    \/ \E n \in NodeNames : \E key \in EnvTaintKeys : RemoveTaint(n, key)
    \/ \E n \in NodeNames : DeleteNode(n)
    \/ \E n \in NodeNames : \E i \in 1..Len(pods[n]) : PodDisappears(n, i)

Spec == Init /\ [][Next]_vars

\* Scheduling: wg.Wait() returns once every goroutine of deletePods 134-149
\* has seen its pod gone, so a resumable Reconcile does resume. Nothing
\* obliges a terminating pod to disappear from the store.
SpecLive == Init /\ [][Next]_vars /\ WF_vars(ReconcileResume)

\* ------------------------------------------------------------ a steady node
\* The node's externally controlled inputs (the unschedulable flag, the
\* taints of other actors, the requires-detached annotation) are set before the first Reconcile and do not
\* change afterwards; every registry and store call succeeds.

InitSteady ==
    /\ \E sc \in Scenarios, cordoned \in BOOLEAN, keys \in SUBSET EnvTaintKeys,
          detached \in BOOLEAN :
         /\ config = sc.config
         /\ nodes = [n \in NodeNames |->
                       [sc.node EXCEPT
                          !.unschedulable = cordoned,
                          !.detached = detached,
                          !.taints = @ \o (IF NodeTaintToBeDeletedByCA \in keys
                                           THEN <<[key |-> NodeTaintToBeDeletedByCA,
                                                   value |-> ""]>>
                                           ELSE <<>>)]]
         /\ pods = [n \in NodeNames |-> sc.pods]
    /\ attachments = [n \in NodeNames |-> NoAttachment]
    /\ registry = [n \in NodeNames |-> AllRegistered]
    /\ synced = FALSE
    /\ inflight = IdleFlight
    /\ last = IdleLast
    /\ OtherIdle

\* Reconcile with every call succeeding
SteadyReconcile(n) ==
    /\ ~ inflight.active
    /\ \E order \in Perms(podLevels(pods[n])) :
       \E w \in {World(nodes, attachments, registry, pods)} :
         /\ \E out \in {ReconcileRun(w, {}, n, config, synced, order)} : Apply(out)
         /\ synced' = syncedAfter(w, {}, n, config, synced)
    /\ UNCHANGED <<config, clsVars, labelVars, cacheVars, dsVars, auxVars>>

\* wg.Wait() returns and deletePods goes on, every call succeeding
SteadyResume ==
    /\ inflight.active
    /\ \A p \in inflight.waiting :
           podGone(World(nodes, attachments, registry, pods), inflight.g.node, p)
    /\ \E w \in {[World(nodes, attachments, registry, pods)
                    EXCEPT !.trace = inflight.trace]} :
         \E out \in {continuePods(w, {}, inflight.g, inflight.listed, inflight.order,
                                   inflight.stale, inflight.faulted)} : Apply(out)
    /\ UNCHANGED <<config, synced, clsVars, labelVars, cacheVars, dsVars, auxVars>>

NextSteady ==
    \/ \E n \in NodeNames : SteadyReconcile(n)
    \/ SteadyResume
    \/ \E n \in NodeNames : \E i \in 1..Len(pods[n]) : PodDisappears(n, i)

\* Scheduling: the work queue keeps handing the node to the worker (resync
\* and requeue), a resumable Reconcile resumes, and here the kubelet does
\* finish terminating pods.
SpecSteady ==
    /\ InitSteady
    /\ [][NextSteady]_vars
    /\ WF_vars(\E n \in NodeNames : SteadyReconcile(n))
    /\ WF_vars(SteadyResume)
    /\ WF_vars(\E n \in NodeNames : \E i \in 1..Len(pods[n]) : PodDisappears(n, i))

\* ------------------------------------------- classification, on its own

MaxClsTaints == 2

ClsTaintKeys ==
    {NodeTaintToBeDeletedByCA, NodeTaintKeyDetaching, TaintKeyUnreachable,
     TaintKeyCustom, TaintKeyCASuffixed, TaintKeyMaster}

ClsTaintSeqs ==
    UNION {{s \in [1..k -> ClsTaintKeys] : \A i, j \in 1..k : i # j => s[i] # s[j]} :
           k \in 0..MaxClsTaints}

ClsInputs ==
    [unschedulable : BOOLEAN, taints : ClsTaintSeqs, detached : BOOLEAN]

\* the node object with the fields the classification reads
ClsNode(in) ==
    [ZeroNode("n1") EXCEPT
        !.exists = TRUE,
        !.unschedulable = in.unschedulable,
        !.detached = in.detached,
        !.taints = [i \in 1..Len(in.taints) |-> [key |-> in.taints[i], value |-> ""]]]

InitClassify ==
    /\ clsIn \in ClsInputs
    /\ clsOut = "none"
    /\ config = ConfigOff
    /\ nodes = [n \in NodeNames |-> ZeroNode(n)]
    /\ pods = [n \in NodeNames |-> NoPods]
    /\ attachments = [n \in NodeNames |-> NoAttachment]
    /\ registry = [n \in NodeNames |-> AllRegistered]
    /\ synced = FALSE
    /\ inflight = IdleFlight
    /\ last = IdleLast
    /\ lnodes = <<>>
    /\ lregistry = <<>>
    /\ llast = <<>>
    /\ clast = <<>>
    /\ dsw = <<>>
    /\ mem = <<>>
    /\ cnd = <<>>
    /\ tgt = <<>>
    /\ tnt = <<>>

\* node_controller.go 240-299 applied to the input
Classify ==
    /\ clsOut = "none"
    /\ clsOut' = IF nodeIsSchedulable(ClsNode(clsIn)) THEN "schedulable"
                 ELSE "unschedulable"
    /\ UNCHANGED <<clsIn, mainVars, labelVars, cacheVars, dsVars, auxVars>>

NextClassify == Classify

SpecClassify == InitClassify /\ [][NextClassify]_vars

\* ------------------------------------- the label-based variant (Nodes)

NodeLabelPrefix == "node-detacher.variant.run"

LabelTokenTG == "tg.node-detacher.variant.run"

LabelTokenCLB == "clb.node-detacher.variant.run"

LabelValueAttached == "attached"

LabelValueDetached == "detached"

\* a label key is the sequence of its pieces, the "/" between them included
NodeKeyLabeled == <<NodeLabelPrefix, "/", "labeled">>

\* the literal that attach.go 21 and detach 102 split instead of the key
LiteralK == <<"k">>

\* strings.Split(s, "/")
SplitSlash(s) == SelectSeq(s, LAMBDA t : t # "/")

\* strings.Contains(k, NodeLabelPrefix)
ContainsLabelPrefix(k) ==
    \E i \in 1..Len(k) : k[i] \in {NodeLabelPrefix, LabelTokenTG, LabelTokenCLB}

\* strings.Split(ks[0], ".")[0]
DomainOf(token) ==
    CASE token = LabelTokenTG -> "tg"
      [] token = LabelTokenCLB -> "clb"
      [] token = NodeLabelPrefix -> "node-detacher"
      [] OTHER -> token

\* fmt.Sprintf("%d", port), and "" without a port
PortString(port) == IF port = NoPort THEN "" ELSE ToString(port[1])

\* labeler.go 135-137 and 143: the label keys of the targets
TGLabelKey(t) ==
    IF t.Port = NoPort THEN <<LabelTokenTG, "/", t.ARN>>
    ELSE <<LabelTokenTG, "/", t.ARN, "/", PortString(t.Port)>>

CLBLabelKey(l) == <<LabelTokenCLB, "/", ToString(l[2])>>

LNode(name, hasId) ==
    [name |-> name, exists |-> TRUE, hasInstanceID |-> hasId, excludeBalancer |-> FALSE,
     labels |-> << >>]

HasLabel(node, k) == k \in DOMAIN node.labels

SetLabel(node, k, v) ==
    [node EXCEPT !.labels = [x \in DOMAIN @ \cup {k} |-> IF x = k THEN v ELSE @[x]]]

RECURSIVE SetLabels(_, _, _)
SetLabels(node, ks, v) ==
    IF ks = {} THEN node
    ELSE Bind(CHOOSE k \in ks : TRUE, LAMBDA k :
           SetLabels(SetLabel(node, k, v), ks \ {k}, v))

\* labeler.go 39
Labeled(node) == HasLabel(node, NodeKeyLabeled) /\ node.labels[NodeKeyLabeled] = "true"

\* labeler.go 122-148: tryset for every target found, then the labeled mark
labelLatest(latest, clbs, tds) ==
    SetLabel(
      SetLabels(latest,
                {k \in {TGLabelKey(tds[i]) : i \in 1..Len(tds)}
                         \cup {CLBLabelKey(clbs[i]) : i \in 1..Len(clbs)} :
                    ~ HasLabel(latest, k)},
                ""),
      NodeKeyLabeled, "true")

\* labeler.go 54-154 for the one node the caller holds
labelNodes(w, F, node) ==
    IF Labeled(node) THEN [w |-> w, err |-> FALSE]
    ELSE IF getInstanceID(node).err THEN [w |-> w, err |-> TRUE]
    ELSE
      Bind(getIdToCLBs(w, F, {node.name}), LAMBDA c :
        IF c.err THEN [w |-> c.w, err |-> TRUE]
        ELSE Bind(getIdToTGs(c.w, F, {node.name}), LAMBDA t :
          IF t.err THEN [w |-> t.w, err |-> TRUE]
          ELSE Bind(GetNode(t.w, F, node.name), LAMBDA g :
            IF g.err THEN [w |-> g.w, err |-> TRUE]
            ELSE UpdateNode(g.w, F, node.name,
                            labelLatest(g.node, c.clbs[node.name], t.tds[node.name]),
                            FALSE))))

\* the registry call of the label-based variant for the pieces ks of a key
lRegistryCall(w, F, name, op, ks) ==
    Bind(Call(w, F), LAMBDA c :
      IF ~ c.ok THEN [w |-> Log(c.w, op, name, ks, FALSE), err |-> TRUE]
      ELSE
        [w |-> Log(
           CASE op = "DeregisterTG" ->
                  [c.w EXCEPT !.registry[name].tgs =
                     {t \in @ : ~ (t.ARN = ks[2] /\ PortString(t.Port) =
                                     (IF Len(ks) = 3 THEN ks[3] ELSE ""))}]
             [] op = "RegisterTG" ->
                  [c.w EXCEPT !.registry[name].tgs =
                     @ \cup {t \in SeqToSet(TGUniverse) :
                               t.ARN = ks[2] /\ PortString(t.Port) =
                                     (IF Len(ks) = 3 THEN ks[3] ELSE "")}]
             [] op = "DeregisterCLB" ->
                  [c.w EXCEPT !.registry[name].clbs =
                     {l \in @ : ToString(l[2]) # ks[2]}]
             [] op = "RegisterCLB" ->
                  [c.w EXCEPT !.registry[name].clbs =
                     @ \cup {l \in SeqToSet(CLBUniverse) : ToString(l[2]) = ks[2]}]
             [] OTHER -> c.w,
           op, name, ks, TRUE),
         err |-> FALSE])

\* the pieces of the key as the loop has them: detach 102 and attach.go 21
\* split the literal, not the key
keyPieces(k) == SplitSlash(LiteralK)

RECURSIVE nodesDetachLabels(_, _, _, _, _, _)
\* detach 101-158: the loop over node.Labels, in the order the map yields
nodesDetachLabels(w, F, node, order, i, updates) ==
    IF i > Len(order) THEN [w |-> w, err |-> FALSE, updates |-> updates]
    ELSE
      Bind(keyPieces(order[i]), LAMBDA ks :
        IF \/ Len(ks) < 2
           \/ ~ ContainsLabelPrefix(order[i])
           \/ order[i] = NodeKeyLabeled
           \/ node.labels[order[i]] = LabelValueDetached
        THEN nodesDetachLabels(w, F, node, order, i + 1, updates)
        ELSE IF DomainOf(ks[1]) = "asg"
        THEN Bind(lRegistryCall(w, F, node.name, "DetachASG", ks), LAMBDA d :
               IF d.err THEN [w |-> d.w, err |-> TRUE, updates |-> updates]
               ELSE nodesDetachLabels(d.w, F, node, order, i + 1,
                                      updates \cup {order[i]}))
        ELSE IF DomainOf(ks[1]) = "tg"
        THEN Bind(excludeFromBalancer(w, F, node.name), LAMBDA x :
               IF x.err THEN [w |-> x.w, err |-> TRUE, updates |-> updates]
               ELSE Bind(lRegistryCall(x.w, F, node.name, "DeregisterTG", ks), LAMBDA d :
                 IF d.err THEN [w |-> d.w, err |-> TRUE, updates |-> updates]
                 ELSE nodesDetachLabels(d.w, F, node, order, i + 1,
                                        updates \cup {order[i]})))
        ELSE IF DomainOf(ks[1]) = "clb"
        THEN Bind(lRegistryCall(w, F, node.name, "DeregisterCLB", ks), LAMBDA d :
               IF d.err THEN [w |-> d.w, err |-> TRUE, updates |-> updates]
               ELSE nodesDetachLabels(d.w, F, node, order, i + 1, updates))
        ELSE [w |-> w, err |-> TRUE, updates |-> updates])

\* detach 160-174 and attach.go 72-86: the labels flipped are written onto
\* the latest node
writeLabelUpdates(w, F, name, updates, v) ==
    IF updates = {} THEN [w |-> w, err |-> FALSE]
    ELSE Bind(GetNode(w, F, name), LAMBDA g :
           IF g.err THEN [w |-> g.w, err |-> TRUE]
           ELSE UpdateNode(g.w, F, name, SetLabels(g.node, updates, v), FALSE))

\* Nodes.detachNodes (detach 92-178) for the one node the caller holds
nodesDetachNodes(w, F, node, order) ==
    IF getInstanceID(node).err THEN [w |-> w, err |-> TRUE]
    ELSE Bind(nodesDetachLabels(w, F, node, order, 1, {}), LAMBDA l :
           IF l.err THEN [w |-> l.w, err |-> TRUE]
           ELSE writeLabelUpdates(l.w, F, node.name, l.updates, LabelValueDetached))

RECURSIVE nodesAttachLabels(_, _, _, _, _, _)
\* attach.go 20-70: the loop over node.Labels
nodesAttachLabels(w, F, node, order, i, updates) ==
    IF i > Len(order) THEN [w |-> w, err |-> FALSE, updates |-> updates]
    ELSE
      Bind(keyPieces(order[i]), LAMBDA ks :
        IF \/ Len(ks) < 2
           \/ ~ ContainsLabelPrefix(order[i])
           \/ order[i] = NodeKeyLabeled
           \/ node.labels[order[i]] # LabelValueDetached
        THEN nodesAttachLabels(w, F, node, order, i + 1, updates)
        ELSE IF DomainOf(ks[1]) = "tg"
        THEN Bind(includeInBalancer(w, F, node.name), LAMBDA x :
               IF x.err THEN [w |-> x.w, err |-> TRUE, updates |-> updates]
               ELSE Bind(lRegistryCall(x.w, F, node.name, "RegisterTG", ks), LAMBDA r :
                 IF r.err THEN [w |-> r.w, err |-> TRUE, updates |-> updates]
                 ELSE nodesAttachLabels(r.w, F, node, order, i + 1,
                                        updates \cup {order[i]})))
        ELSE IF DomainOf(ks[1]) = "clb"
        THEN Bind(lRegistryCall(w, F, node.name, "RegisterCLB", ks), LAMBDA r :
               IF r.err THEN [w |-> r.w, err |-> TRUE, updates |-> updates]
               ELSE nodesAttachLabels(r.w, F, node, order, i + 1, updates))
        ELSE [w |-> w, err |-> TRUE, updates |-> updates])

\* Nodes.attachNodes (attach.go 11-90) for the one node the caller holds
nodesAttachNodes(w, F, node, order) ==
    IF getInstanceID(node).err THEN [w |-> w, err |-> TRUE]
    ELSE Bind(nodesAttachLabels(w, F, node, order, 1, {}), LAMBDA l :
           IF l.err THEN [w |-> l.w, err |-> TRUE]
           ELSE writeLabelUpdates(l.w, F, node.name, l.updates, LabelValueAttached))

MaxLabelCallIndex == 5

LabelFaults == {{}} \cup {{k} : k \in 1..MaxLabelCallIndex}

LWorld == [nodes |-> lnodes, registry |-> lregistry, n |-> 0, trace |-> <<>>,
           written |-> {}]

NoOp == [op |-> "none", err |-> FALSE, calls |-> <<>>]

InitLabels ==
    /\ \E hasId \in BOOLEAN : lnodes = [n \in NodeNames |-> LNode(n, hasId)]
    /\ \E tgs \in SUBSET SeqToSet(TGUniverse) : \E clbs \in SUBSET SeqToSet(CLBUniverse) :
          lregistry = [n \in NodeNames |-> [tgs |-> tgs, clbs |-> clbs]]
    /\ llast = [prev |-> NoOp, now |-> NoOp]
    /\ clsIn = ClsIdle
    /\ clsOut = "none"
    /\ config = ConfigOff
    /\ nodes = [n \in NodeNames |-> ZeroNode(n)]
    /\ pods = [n \in NodeNames |-> NoPods]
    /\ attachments = [n \in NodeNames |-> NoAttachment]
    /\ registry = [n \in NodeNames |-> AllRegistered]
    /\ synced = FALSE
    /\ inflight = IdleFlight
    /\ last = IdleLast
    /\ clast = <<>>
    /\ dsw = <<>>
    /\ mem = <<>>
    /\ cnd = <<>>
    /\ tgt = <<>>
    /\ tnt = <<>>

LApply(op, out) ==
    /\ lnodes' = out.w.nodes
    /\ lregistry' = out.w.registry
    /\ llast' = [prev |-> llast.now,
                 now |-> [op |-> op, err |-> out.err, calls |-> out.w.trace]]
    /\ UNCHANGED <<mainVars, clsVars, cacheVars, dsVars, auxVars>>

LabelNodes(n) ==
    \E F \in LabelFaults : \E out \in {labelNodes(LWorld, F, lnodes[n])} :
        LApply("label", out)

NodesDetach(n) ==
    \E F \in LabelFaults : \E order \in Perms(DOMAIN lnodes[n].labels) :
        \E out \in {nodesDetachNodes(LWorld, F, lnodes[n], order)} : LApply("detach", out)

NodesAttach(n) ==
    \E F \in LabelFaults : \E order \in Perms(DOMAIN lnodes[n].labels) :
        \E out \in {nodesAttachNodes(LWorld, F, lnodes[n], order)} : LApply("attach", out)

NextLabels ==
    \/ \E n \in NodeNames : LabelNodes(n)
    \/ \E n \in NodeNames : NodesDetach(n)
    \/ \E n \in NodeNames : NodesAttach(n)

SpecLabels == InitLabels /\ [][NextLabels]_vars

\* ---------------------------------------- the attachment cache, on its own

CacheNodeNames == {"n1", "n2"}

\* Call numbers at which a fault can be injected into one NodeAttachments call.
MaxCacheCallIndex == 9

CacheFaults == {{}} \cup {{k} : k \in 1..MaxCacheCallIndex}

\* Number of NodeAttachments calls followed from the start.
MaxCacheCalls == 3

NoCacheCall ==
    [op |-> "none", req |-> "", batch |-> {}, err |-> FALSE, faulted |-> FALSE,
     trace |-> <<>>,
     pre |-> [nodes |-> <<>>, attachments |-> <<>>, registry |-> <<>>]]

NoCrash == [op |-> "none", crash |-> "", calls |-> 0]

IsCacheCall(c) == c.op \in {"cache", "cacheAll"}

IsRecordWrite(e) == e.op \in {"CreateAttachment", "UpdateAttachment"} /\ e.ok

\* the node at which a cache call stopped between the write of the record
\* (cache.go 141-160) and the write of the cached marker (162-173), if any
CrashNode(trace, err) ==
    IF ~ err \/ Len(trace) = 0 THEN ""
    ELSE IF IsRecordWrite(trace[Len(trace)]) THEN trace[Len(trace)].node
    ELSE IF /\ Len(trace) > 1
            /\ trace[Len(trace)].op = "UpdateNode" /\ ~ trace[Len(trace)].ok
            /\ IsRecordWrite(trace[Len(trace) - 1])
    THEN trace[Len(trace) - 1].node
    ELSE ""

InitCache ==
    /\ config = ConfigStatic
    /\ nodes = [n \in CacheNodeNames |-> NewNode(n, TRUE, FALSE)]
    /\ \E tgs \in SUBSET SeqToSet(TGUniverse) :
          registry = [n \in CacheNodeNames |->
                        IF n = "n1" THEN [tgs |-> tgs, clbs |-> SeqToSet(CLBUniverse)]
                        ELSE [tgs |-> {}, clbs |-> {}]]
    /\ attachments = [n \in CacheNodeNames |-> NoAttachment]
    /\ pods = [n \in CacheNodeNames |-> NoPods]
    /\ synced = FALSE
    /\ inflight = IdleFlight
    /\ last = IdleLast
    /\ clast = [prev |-> NoCrash, now |-> NoCacheCall]
    /\ clsIn = ClsIdle
    /\ clsOut = "none"
    /\ lnodes = <<>>
    /\ lregistry = <<>>
    /\ llast = <<>>
    /\ dsw = <<>>
    /\ mem = <<>>
    /\ cnd = <<>>
    /\ tgt = <<>>
    /\ tnt = <<>>

CApply(op, req, batch, F, out) ==
    /\ clast.prev.calls < MaxCacheCalls
    /\ nodes' = out.w.nodes
    /\ attachments' = out.w.attachments
    /\ registry' = out.w.registry
    /\ clast' =
         [prev |-> [op |-> clast.now.op, calls |-> clast.prev.calls + 1,
                    crash |-> IF /\ IsCacheCall(clast.now)
                                 /\ CrashNode(clast.now.trace, clast.now.err) # ""
                                 /\ ~ Cached(clast.now.pre.nodes[
                                         CrashNode(clast.now.trace, clast.now.err)])
                              THEN CrashNode(clast.now.trace, clast.now.err)
                              ELSE ""],
          now |-> [op |-> op, req |-> req, batch |-> batch, err |-> out.err,
                   faulted |-> Faulted(out.w, F), trace |-> out.w.trace,
                   pre |-> [nodes |-> nodes, attachments |-> attachments,
                            registry |-> registry]]]
    /\ UNCHANGED <<pods, config, synced, inflight, last, clsVars, labelVars, dsVars, auxVars>>

\* cacheNodeAttachments for the one node Reconcile holds (node_controller.go
\* 205 and 309)
CacheNode(n) ==
    \E F \in CacheFaults :
      \E out \in {cacheNodeAttachments(World(nodes, attachments, registry, pods), F,
                                        <<nodes[n]>>, config)} :
        CApply("cache", n, {n}, F, out)

\* cacheAllNodeAttachments, in the first Reconcile of a controller, whichever
\* node req its request names (node_controller.go 191-200)
CacheAll ==
    \E F \in CacheFaults, req \in CacheNodeNames :
      \E out \in {cacheAllNodeAttachments(World(nodes, attachments, registry, pods), F,
                                           config)} :
        CApply("cacheAll", req, IF 1 \in F THEN {} ELSE CacheNodeNames, F, out)

\* detachNodes for the one node Reconcile holds (node_controller.go 314)
CacheDetach(n) ==
    \E F \in CacheFaults :
      \E out \in {detachNodes(World(nodes, attachments, registry, pods), F, nodes[n])} :
        CApply("detach", n, {n}, F, out)

\* the Reattaching path of Reconcile, which labels the node cached=false
\* (node_controller.go 394-421)
CacheReattach(n) ==
    \E F \in CacheFaults :
      \E r \in {reattach(World(nodes, attachments, registry, pods), F,
                          Ghost(n, nodes[n], "reattach", TRUE))} :
        CApply("reattach", n, {n}, F, [w |-> r.w, err |-> r.last.err])

NextCache ==
    \/ \E n \in CacheNodeNames : CacheNode(n)
    \/ CacheAll
    \/ \E n \in CacheNodeNames : CacheDetach(n)
    \/ \E n \in CacheNodeNames : CacheReattach(n)

SpecCache == InitCache /\ [][NextCache]_vars

\* ------------------------------------- the daemonset and the pod controllers
\* One targeted daemonset with one pod on each node, DaemonsetController and
\* PodController beside NodeController, every call of NodeController
\* succeeding.

\* Highest generation the daemonset is rolled to.
MaxGeneration == 2
\* Call numbers at which a fault can be injected into one run of the
\* daemonset or the pod controller.
MaxDSCallIndex == 4

DSFaults == {{}} \cup {{k} : k \in 1..MaxDSCallIndex}

DSNodeSeq == <<"n1", "n2">>

\* a pod of the daemonset: its pod-template-generation label and whether it
\* carries the annotation node-detacher.variant.run/detaching of this manager
DSPod(node, gen) ==
    [name |-> node, hasPri |-> TRUE, pri |-> 1, disableEviction |-> FALSE,
     terminating |-> FALSE, gone |-> FALSE, hasGen |-> TRUE, gen |-> gen,
     annotated |-> FALSE]

DSIdle == [op |-> "none", node |-> "", err |-> FALSE, requeue |-> "", trace |-> <<>>]

\* daemonset_controller.go 160-173 GetPodTemplateGeneration against
\* ds.Generation (129): a pod without the label is never older
Outdated(pod, ds) == pod.hasGen /\ pod.gen < ds.generation

\* ds.Status.DesiredNumberScheduled and UpdatedNumberScheduled, kept by the
\* daemonset controller of the cluster
DesiredNumberScheduled(w) == Len(DSNodeSeq)

UpdatedNumberScheduled(w, ds) ==
    Cardinality({i \in 1..Len(DSNodeSeq) :
        \E k \in 1..Len(w.pods[DSNodeSeq[i]]) :
            /\ ~ w.pods[DSNodeSeq[i]][k].gone
            /\ ~ Outdated(w.pods[DSNodeSeq[i]][k], ds)})

\* the pods a List by owner returns, as (node, index) pairs
RECURSIVE ownedPods(_, _)
ownedPods(w, i) ==
    IF i > Len(DSNodeSeq) THEN <<>>
    ELSE [k \in 1..Len(SelectSeq(w.pods[DSNodeSeq[i]], LAMBDA q : ~ q.gone)) |->
             [node |-> DSNodeSeq[i],
              name |-> SelectSeq(w.pods[DSNodeSeq[i]], LAMBDA q : ~ q.gone)[k].name]]
         \o ownedPods(w, i + 1)

annotatePod(w, node, name) ==
    [w EXCEPT !.pods[node] =
        [k \in 1..Len(@) |->
            IF @[k].name = name THEN [@[k] EXCEPT !.annotated = TRUE] ELSE @[k]]]

podOf(w, node, name) ==
    CHOOSE q \in SeqToSet(w.pods[node]) : q.name = name

RECURSIVE markOutdatedPods(_, _, _, _, _)
\* daemonset_controller.go 128-142: the loop over the pods of the daemonset
markOutdatedPods(w, F, ds, list, i) ==
    IF i > Len(list) THEN [w |-> w, err |-> FALSE, requeue |-> ""]
    ELSE IF ~ Outdated(podOf(w, list[i].node, list[i].name), ds)
            \/ podOf(w, list[i].node, list[i].name).annotated
    THEN markOutdatedPods(w, F, ds, list, i + 1)
    ELSE
      Bind(Call(w, F), LAMBDA c :
        IF ~ c.ok
        THEN [w |-> Log(c.w, "PatchPod", list[i].node, list[i].name, FALSE),
              err |-> TRUE, requeue |-> "1s"]
        ELSE markOutdatedPods(
               Log(annotatePod(c.w, list[i].node, list[i].name),
                   "PatchPod", list[i].node, list[i].name, TRUE),
               F, ds, list, i + 1))

\* daemonset_controller.go 74-144 DaemonsetController.Reconcile
DaemonsetControllerReconcile(w, F, ds) ==
    IF ~ ds.targeted THEN [w |-> w, err |-> FALSE, requeue |-> ""]
    ELSE
      Bind(Call(w, F), LAMBDA c :               \* r.Client.Get of the daemonset
        IF ~ c.ok THEN [w |-> c.w, err |-> TRUE, requeue |-> ""]
        ELSE IF ~ ds.onDelete THEN [w |-> c.w, err |-> FALSE, requeue |-> ""]
        ELSE IF DesiredNumberScheduled(c.w) <= UpdatedNumberScheduled(c.w, ds)
        THEN [w |-> c.w, err |-> FALSE, requeue |-> ""]
        ELSE
          Bind(Call(c.w, F), LAMBDA l :         \* r.List of its pods
            IF ~ l.ok THEN [w |-> l.w, err |-> TRUE, requeue |-> "1s"]
            ELSE markOutdatedPods(l.w, F, ds, ownedPods(l.w, 1), 1)))

\* part_006 89-173 PodController.Reconcile for the pod name on node
PodControllerReconcile(w, F, ds, node, name) ==
    IF ~ ds.targeted THEN [w |-> w, err |-> FALSE, requeue |-> ""]
    ELSE
      Bind(Call(w, F), LAMBDA c :               \* r.Client.Get of the pod
        IF ~ c.ok \/ podGone(c.w, node, name)
        THEN [w |-> c.w, err |-> TRUE, requeue |-> ""]
        ELSE IF /\ ~ podOf(c.w, node, name).terminating
                /\ ~ podOf(c.w, node, name).annotated
        THEN [w |-> c.w, err |-> FALSE, requeue |-> ""]
        ELSE
          Bind(GetNode(c.w, F, node), LAMBDA g :
            IF g.err THEN [w |-> g.w, err |-> TRUE, requeue |-> "1s"]
            ELSE
              Bind(Call(g.w, F), LAMBDA u :     \* r.Patch of the node
                IF ~ u.ok
                THEN [w |-> Log(u.w, "PatchNode", node, "", FALSE),
                      err |-> TRUE, requeue |-> "1s"]
                ELSE [w |-> Log([u.w EXCEPT !.nodes[node] =
                                    taintNode(g.node, ControllerName)],
                                "PatchNode", node, "", TRUE),
                      err |-> FALSE, requeue |-> ""])))

InitDaemonSet ==
    /\ config = ConfigDynamic
    /\ nodes = [n \in SeqToSet(DSNodeSeq) |-> NewNode(n, TRUE, FALSE)]
    /\ registry = [n \in SeqToSet(DSNodeSeq) |-> AllRegistered]
    /\ attachments = [n \in SeqToSet(DSNodeSeq) |-> NoAttachment]
    /\ pods = [n \in SeqToSet(DSNodeSeq) |-> <<DSPod(n, 1)>>]
    /\ synced = FALSE
    /\ inflight = IdleFlight
    /\ last = IdleLast
    /\ \E targeted \in BOOLEAN, onDelete \in BOOLEAN :
          dsw = [ds |-> [targeted |-> targeted, onDelete |-> onDelete, generation |-> 1],
                 last |-> DSIdle]
    /\ clsIn = ClsIdle
    /\ clsOut = "none"
    /\ lnodes = <<>>
    /\ lregistry = <<>>
    /\ llast = <<>>
    /\ clast = <<>>
    /\ mem = <<>>
    /\ cnd = <<>>
    /\ tgt = <<>>
    /\ tnt = <<>>

DSApply(op, node, out) ==
    /\ nodes' = out.w.nodes
    /\ pods' = out.w.pods
    /\ dsw' = [dsw EXCEPT !.last = [op |-> op, node |-> node, err |-> out.err,
                                    requeue |-> out.requeue, trace |-> out.w.trace]]
    /\ inflight' = IF inflight.active /\ nodes'[inflight.g.node] # nodes[inflight.g.node]
                   THEN [inflight EXCEPT !.stale = TRUE]
                   ELSE inflight
    /\ last' = IdleLast
    /\ UNCHANGED <<attachments, registry, config, synced, clsVars, labelVars, cacheVars, auxVars>>

\* the work queue hands the daemonset to DaemonsetController
DaemonsetReconcile ==
    \E F \in DSFaults :
      \E out \in {DaemonsetControllerReconcile(
                     World(nodes, attachments, registry, pods), F, dsw.ds)} :
        DSApply("daemonset", "", out)

\* the work queue hands a pod to PodController
PodReconcile(n) ==
    \E F \in DSFaults :
      \E out \in {PodControllerReconcile(
                     World(nodes, attachments, registry, pods), F, dsw.ds, n, n)} :
        DSApply("pod", n, out)

\* the owner of the daemonset changes its pod template
RollOut ==
    /\ dsw.ds.generation < MaxGeneration
    /\ dsw' = [dsw EXCEPT !.ds.generation = @ + 1, !.last = DSIdle]
    /\ last' = IdleLast
    /\ UNCHANGED <<mainVars, clsVars, labelVars, cacheVars, auxVars>>

\* somebody deletes a pod of the daemonset: it starts terminating
PodDeleted(n) ==
    /\ \E k \in 1..Len(pods[n]) : ~ pods[n][k].terminating /\ ~ pods[n][k].gone
    /\ pods' = [pods EXCEPT ![n] =
                  [k \in 1..Len(@) |-> [@[k] EXCEPT !.terminating = TRUE]]]
    /\ dsw' = [dsw EXCEPT !.last = DSIdle]
    /\ last' = IdleLast
    /\ UNCHANGED <<nodes, attachments, registry, config, synced, inflight,
                   clsVars, labelVars, cacheVars, auxVars>>

NextDaemonSet ==
    \/ DaemonsetReconcile
    \/ \E n \in SeqToSet(DSNodeSeq) : PodReconcile(n)
    \/ \E n \in SeqToSet(DSNodeSeq) : SteadyReconcile(n)
    \/ SteadyResume
    \/ RollOut
    \/ \E n \in SeqToSet(DSNodeSeq) : PodDeleted(n)
    \/ \E n \in SeqToSet(DSNodeSeq) : \E i \in 1..Len(pods[n]) : PodDisappears(n, i)
    \/ \E n \in SeqToSet(DSNodeSeq) : Cordon(n)

SpecDaemonSet == InitDaemonSet /\ [][NextDaemonSet]_vars

\* ------------------------------- the in-memory progress variant (detacher.go)
\* One node with one instance; the three maps of the caller (instance ->
\* target -> done) kept between calls of detachUnschedulables.

\* Call numbers at which a fault can be injected into one run of
\* detachUnschedulables.
MaxMemCallIndex == 6

MemFaults == {{}} \cup {{k} : k \in 1..MaxMemCallIndex}

MemKinds == {"asg", "clb", "tg"}
MemTargets == [asg |-> {"asg1"}, clb |-> {"clb1"}, tg |-> {"tg1", "tg2"}]
MemTGOrders == {<<"tg1", "tg2">>, <<"tg2", "tg1">>}

\* the instance has no entry in the map
NoEntry == [known |-> FALSE, done |-> <<>>]

MemIdle == [op |-> "none", err |-> FALSE, trace |-> <<>>, present |-> FALSE,
            ca |-> FALSE, pre |-> [k \in MemKinds |-> NoEntry],
            preReg |-> [k \in MemKinds |-> {}]]

MemWorld(m) ==
    [node |-> m.node, reg |-> m.reg, maps |-> m.maps, n |-> 0, trace |-> <<>>,
     err |-> FALSE]

MemFail(s) == [s EXCEPT !.err = TRUE]

\* the instance's entry of one map as the resolution loops build it:
\* m[target] = true for every target found
recordTargets(found) == [known |-> TRUE, done |-> [t \in found |-> TRUE]]

\* getIdToASGs and the loop recording its result
resolveASGs(s, F) ==
    Bind(Call(s, F), LAMBDA c :
      Bind(Log(c.w, "DescribeAutoScalingInstances", "n1", "", c.ok), LAMBDA l :
        IF ~ c.ok \/ l.reg.asg = {} THEN MemFail(l)
        ELSE [l EXCEPT !.maps.asg = recordTargets(l.reg.asg)]))

\* getIdToCLBs and the loop recording its result
resolveCLBs(s, F) ==
    IF s.err THEN s ELSE
    Bind(Call(s, F), LAMBDA c :
      Bind(Log(c.w, "DescribeLoadBalancers", "n1", "", c.ok), LAMBDA l :
        IF ~ c.ok THEN MemFail(l)
        ELSE IF l.reg.clb = {} THEN l
        ELSE [l EXCEPT !.maps.clb = recordTargets(l.reg.clb)]))

\* DescribeTargetHealth of every target group of the account, in turn
RECURSIVE describeTargetHealth(_, _, _, _)
describeTargetHealth(s, F, tgs, i) ==
    IF s.err \/ i > Len(tgs) THEN s
    ELSE Bind(Call(s, F), LAMBDA c :
           describeTargetHealth(
             IF c.ok THEN Log(c.w, "DescribeTargetHealth", "n1", tgs[i], TRUE)
             ELSE MemFail(Log(c.w, "DescribeTargetHealth", "n1", tgs[i], FALSE)),
             F, tgs, i + 1))

\* getIdToTGs and the loop recording its result
resolveTGs(s, F, tgOrder) ==
    IF s.err THEN s ELSE
    Bind(Call(s, F), LAMBDA c :
      Bind(Log(c.w, "DescribeTargetGroups", "n1", "", c.ok), LAMBDA l :
        IF ~ c.ok THEN MemFail(l)
        ELSE Bind(describeTargetHealth(l, F, tgOrder, 1), LAMBDA h :
               IF h.err \/ h.reg.tg = {} THEN h
               ELSE [h EXCEPT !.maps.tg = recordTargets(h.reg.tg)])))

\* the detach or deregister calls of one map, target by target
RECURSIVE detachEach(_, _, _, _, _)
detachEach(s, F, kind, names, i) ==
    IF s.err \/ i > Len(names) THEN s
    ELSE IF s.maps[kind].done[names[i]]
    THEN detachEach(s, F, kind, names, i + 1)
    ELSE Bind(Call(s, F), LAMBDA c :
           detachEach(
             IF c.ok
             THEN [Log(c.w, "detach", kind, names[i], TRUE) EXCEPT
                     !.reg[kind] = @ \ {names[i]},
                     !.maps[kind].done[names[i]] = TRUE]
             ELSE MemFail(Log(c.w, "detach", kind, names[i], FALSE)),
             F, kind, names, i + 1))

\* one of the three loops over a map: skipped for the taint of the cluster
\* autoscaler (scaling groups only), the entry dropped when the node is not
\* in the list, a call for every target not yet done otherwise
detachFrom(s, F, kind, present, skip, order) ==
    IF s.err \/ ~ s.maps[kind].known \/ skip THEN s
    ELSE IF ~ present THEN [s EXCEPT !.maps[kind] = NoEntry]
    ELSE detachEach(s, F, kind,
                    SelectSeq(order, LAMBDA t : t \in DOMAIN s.maps[kind].done), 1)

\* detachNodes of detacher.go with the list of unschedulable nodes: the node
\* when present, nothing otherwise
memDetachNodes(s, F, present, tgOrder) ==
    IF present /\ ~ s.node.labeled THEN MemFail(s)
    ELSE
    Bind(IF present /\ ~ s.maps.asg.known
         THEN resolveTGs(resolveCLBs(resolveASGs(s, F), F), F, tgOrder)
         ELSE s, LAMBDA r :
      detachFrom(
        detachFrom(
          detachFrom(r, F, "asg", present, present /\ r.node.ca, <<"asg1">>),
          F, "clb", present, FALSE, <<"clb1">>),
        F, "tg", present, FALSE, tgOrder))

\* detachUnschedulables: list the nodes, keep the unschedulable ones
memDetachUnschedulables(s, F, tgOrder) ==
    Bind(Call(s, F), LAMBDA c :
      Bind(Log(c.w, "ListNodes", "", "", c.ok), LAMBDA l :
        IF ~ c.ok THEN MemFail(l)
        ELSE memDetachNodes(l, F, l.node.unschedulable, tgOrder)))

InitDetacher ==
    /\ \E labeled \in BOOLEAN, inASG \in BOOLEAN, clbs \in SUBSET MemTargets.clb,
          tgs \in SUBSET MemTargets.tg :
         mem = [node |-> [unschedulable |-> FALSE, ca |-> FALSE, labeled |-> labeled],
                reg |-> [asg |-> IF inASG THEN MemTargets.asg ELSE {},
                         clb |-> clbs, tg |-> tgs],
                maps |-> [k \in MemKinds |-> NoEntry],
                last |-> MemIdle]
    /\ config = ConfigOff
    /\ nodes = [n \in NodeNames |-> ZeroNode(n)]
    /\ pods = [n \in NodeNames |-> NoPods]
    /\ attachments = [n \in NodeNames |-> NoAttachment]
    /\ registry = [n \in NodeNames |-> AllRegistered]
    /\ synced = FALSE
    /\ inflight = IdleFlight
    /\ last = IdleLast
    /\ clsIn = ClsIdle
    /\ clsOut = "none"
    /\ lnodes = <<>>
    /\ lregistry = <<>>
    /\ llast = <<>>
    /\ clast = <<>>
    /\ dsw = <<>>
    /\ cnd = <<>>
    /\ tgt = <<>>
    /\ tnt = <<>>

\* the loop of main calls detachUnschedulables
DetachUnschedulables ==
    \E F \in MemFaults, tgOrder \in MemTGOrders :
      \E out \in {memDetachUnschedulables(MemWorld(mem), F, tgOrder)} :
        /\ mem' = [mem EXCEPT
                     !.reg = out.reg,
                     !.maps = out.maps,
                     !.last = [op |-> "detach", err |-> out.err, trace |-> out.trace,
                               present |-> mem.node.unschedulable,
                               ca |-> mem.node.ca,
                               pre |-> mem.maps, preReg |-> mem.reg]]
        /\ UNCHANGED <<mainVars, clsVars, labelVars, cacheVars, dsVars,
                       cnd, tgt, tnt>>

\* the cluster autoscaler taints the node before it cordons it
MemTaintByCA ==
    /\ ~ mem.node.unschedulable
    /\ ~ mem.node.ca
    /\ mem' = [mem EXCEPT !.node.ca = TRUE, !.last = MemIdle]
    /\ UNCHANGED <<mainVars, clsVars, labelVars, cacheVars, dsVars, cnd, tgt, tnt>>

MemCordon ==
    /\ ~ mem.node.unschedulable
    /\ mem' = [mem EXCEPT !.node.unschedulable = TRUE, !.last = MemIdle]
    /\ UNCHANGED <<mainVars, clsVars, labelVars, cacheVars, dsVars, cnd, tgt, tnt>>

\* the scale-down is cancelled or the node uncordoned
MemUncordon ==
    /\ mem.node.unschedulable
    /\ mem' = [mem EXCEPT !.node.unschedulable = FALSE, !.node.ca = FALSE,
                          !.last = MemIdle]
    /\ UNCHANGED <<mainVars, clsVars, labelVars, cacheVars, dsVars, cnd, tgt, tnt>>

NextDetacher ==
    \/ DetachUnschedulables
    \/ MemTaintByCA
    \/ MemCordon
    \/ MemUncordon

SpecDetacher == InitDetacher /\ [][NextDetacher]_vars

\* ------------------------ the condition-based variant (reconciler.go)
\* NodeReconciler over the label-based Nodes, one node, no daemonsets
\* configured; the store keeps the conditions as Update writes them.

\* Call numbers at which a fault can be injected into one Reconcile.
MaxCondCallIndex == 6
\* Reconcile is followed while the node has fewer NodeBeingDetached
\* conditions than this.
MaxConditions == 3

CondFaults == {{}} \cup {{k} : k \in 1..MaxCondCallIndex}

\* the label keys a node of this specification can carry
CondLabelKeys == {TGLabelKey(TGUniverse[1]), CLBLabelKey(CLBUniverse[1]), NodeKeyLabeled}

CondNode(hasId) ==
    [name |-> "n1", exists |-> TRUE, hasInstanceID |-> hasId, excludeBalancer |-> FALSE,
     labels |-> << >>, unschedulable |-> FALSE, toBeDeletedByCA |-> FALSE,
     conditions |-> <<>>]

CondWorld(c) == [nodes |-> c.nodes, registry |-> c.registry, n |-> 0, trace |-> <<>>,
                 written |-> {}]

CondIdle == [op |-> "none", path |-> "idle", err |-> FALSE, requeue |-> "",
             fetched |-> FALSE, being |-> FALSE, schedulable |-> FALSE,
             healedBefore |-> FALSE, trace |-> <<>>]

\* reconciler.go 225-231: a NodeBeingDetached condition with status True
condNodeBeingDetached(node) ==
    \E i \in 1..Len(node.conditions) : node.conditions[i] = "True"

\* reconciler.go 253
condNodeIsSchedulable(node) == ~ node.unschedulable /\ ~ node.toBeDeletedByCA

\* append(updated.Status.Conditions, NodeCondition{NodeBeingDetached, status})
appendCondition(node, status) == [node EXCEPT !.conditions = Append(@, status)]

\* labeler.go 42-52
labelAllNodes(w, F) ==
    Bind(Call(w, F), LAMBDA c :
      IF ~ c.ok THEN [w |-> Log(c.w, "ListNodes", "", "", FALSE), err |-> TRUE]
      ELSE labelNodes(Log(c.w, "ListNodes", "", "", TRUE), F, c.w.nodes["n1"]))

condResult(w, path, err, requeue, fetched, node) ==
    [w |-> w, path |-> path, err |-> err, requeue |-> requeue, fetched |-> fetched,
     being |-> fetched /\ condNodeBeingDetached(node),
     schedulable |-> fetched /\ condNodeIsSchedulable(node)]

\* reconciler.go 255-296: the node is already being detached
condBeingDetached(w, F, node, order) ==
    IF ~ condNodeIsSchedulable(node)
    THEN condResult(w, "already", FALSE, "", TRUE, node)
    ELSE Bind(nodesAttachNodes(w, F, node, order), LAMBDA a :
           IF a.err THEN condResult(a.w, "reattach", TRUE, "5s", TRUE, node)
           ELSE Bind(UpdateNode(a.w, F, node.name, appendCondition(node, "False"),
                                node.name \in a.w.written), LAMBDA u :
                  condResult(u.w, "reattach", u.err, "", TRUE, node)))

\* reconciler.go 306-337: the node became unschedulable
condDetaching(w, F, cfg, node, order) ==
    Bind(IF dynamicMode(cfg) THEN labelNodes(w, F, node).w ELSE w, LAMBDA l :
      Bind(nodesDetachNodes(l, F, node, order), LAMBDA d :
        IF d.err THEN condResult(d.w, "detaching", TRUE, "1s", TRUE, node)
        ELSE Bind(UpdateNode(d.w, F, node.name, appendCondition(node, "True"),
                             node.name \in d.w.written), LAMBDA u :
               condResult(u.w, "detaching", u.err, "", TRUE, node))))

\* NodeReconciler.Reconcile (reconciler.go 124-337), no daemonsets configured
condReconcile(w, F, cfg, isSynced, name, allOrder) ==
    Bind(IF ~ isSynced /\ staticMode(cfg) THEN labelAllNodes(w, F).w ELSE w, LAMBDA s :
      Bind(GetNode(s, F, name), LAMBDA g :
        IF g.err THEN condResult(g.w, "geterror", FALSE, "", FALSE, g.node)
        ELSE
          Bind(IF staticMode(cfg) /\ ~ Labeled(g.node)
               THEN labelNodes(g.w, F, g.node).w ELSE g.w, LAMBDA l :
            Bind(SelectSeq(allOrder, LAMBDA k : k \in DOMAIN g.node.labels),
                 LAMBDA order :
              IF condNodeBeingDetached(g.node)
              THEN condBeingDetached(l, F, g.node, order)
              ELSE IF condNodeIsSchedulable(g.node)
              THEN condResult(l, "noop", FALSE, "", TRUE, g.node)
              ELSE condDetaching(l, F, cfg, g.node, order)))))

InitCondition ==
    /\ \E hasId \in BOOLEAN, cfg \in {ConfigStatic, ConfigDynamic},
          clbs \in SUBSET {CLBUniverse[1]} :
         cnd = [nodes |-> [n \in NodeNames |-> CondNode(hasId)],
                registry |-> [n \in NodeNames |->
                                [tgs |-> {TGUniverse[1]}, clbs |-> clbs]],
                cfg |-> cfg, synced |-> FALSE, healed |-> FALSE, last |-> CondIdle]
    /\ config = ConfigOff
    /\ nodes = [n \in NodeNames |-> ZeroNode(n)]
    /\ pods = [n \in NodeNames |-> NoPods]
    /\ attachments = [n \in NodeNames |-> NoAttachment]
    /\ registry = [n \in NodeNames |-> AllRegistered]
    /\ synced = FALSE
    /\ inflight = IdleFlight
    /\ last = IdleLast
    /\ clsIn = ClsIdle
    /\ clsOut = "none"
    /\ lnodes = <<>>
    /\ lregistry = <<>>
    /\ llast = <<>>
    /\ clast = <<>>
    /\ dsw = <<>>
    /\ mem = <<>>
    /\ tgt = <<>>
    /\ tnt = <<>>

\* the work queue hands the node to NodeReconciler
CondReconcile(n) ==
    /\ Len(cnd.nodes[n].conditions) < MaxConditions
    /\ \E F \in CondFaults, allOrder \in Perms(CondLabelKeys) :
         \E out \in {condReconcile(CondWorld(cnd), F, cnd.cfg, cnd.synced, n,
                                   allOrder)} :
           /\ cnd' = [cnd EXCEPT
                        !.nodes = out.w.nodes,
                        !.registry = out.w.registry,
                        !.synced = TRUE,
                        !.healed = IF out.path = "reattach" /\ ~ out.err THEN TRUE
                                   ELSE IF out.path = "detaching" /\ ~ out.err
                                   THEN FALSE
                                   ELSE @,
                        !.last = [op |-> "reconcile", path |-> out.path,
                                  err |-> out.err, requeue |-> out.requeue,
                                  fetched |-> out.fetched, being |-> out.being,
                                  schedulable |-> out.schedulable,
                                  healedBefore |-> cnd.healed,
                                  trace |-> out.w.trace]]
           /\ UNCHANGED <<mainVars, clsVars, labelVars, cacheVars, dsVars,
                          mem, tgt, tnt>>

CondCordon(n) ==
    /\ ~ cnd.nodes[n].unschedulable
    /\ cnd' = [cnd EXCEPT !.nodes[n].unschedulable = TRUE, !.last = CondIdle]
    /\ UNCHANGED <<mainVars, clsVars, labelVars, cacheVars, dsVars, mem, tgt, tnt>>

\* the scale-down is cancelled or the node uncordoned
CondUncordon(n) ==
    /\ cnd.nodes[n].unschedulable \/ cnd.nodes[n].toBeDeletedByCA
    /\ cnd' = [cnd EXCEPT !.nodes[n].unschedulable = FALSE,
                          !.nodes[n].toBeDeletedByCA = FALSE,
                          !.last = CondIdle]
    /\ UNCHANGED <<mainVars, clsVars, labelVars, cacheVars, dsVars, mem, tgt, tnt>>

\* the cluster autoscaler taints the node
CondTaintByCA(n) ==
    /\ ~ cnd.nodes[n].toBeDeletedByCA
    /\ cnd' = [cnd EXCEPT !.nodes[n].toBeDeletedByCA = TRUE, !.last = CondIdle]
    /\ UNCHANGED <<mainVars, clsVars, labelVars, cacheVars, dsVars, mem, tgt, tnt>>

NextCondition ==
    \/ \E n \in NodeNames : CondReconcile(n)
    \/ \E n \in NodeNames : CondCordon(n)
    \/ \E n \in NodeNames : CondUncordon(n)
    \/ \E n \in NodeNames : CondTaintByCA(n)

SpecCondition == InitCondition /\ [][NextCondition]_vars

\* ------------------------------------ daemonset targeting (PodController)
\* PodController.Reconcile for one pod under every target list of bounded
\* length; an item is the sequence of its pieces, the "/" included.

\* Longest list of target daemonsets.
MaxTargets == 2
\* Call numbers at which a fault can be injected into one Reconcile.
MaxTgtCallIndex == 3

TgtFaults == {{}} \cup {{k} : k \in 1..MaxTgtCallIndex}

\* the namespace the controller is deployed to
OwnNamespace == "kube-system"
TgtNamespaces == {OwnNamespace, "ingress"}
TgtNames == {"contour", "nginx"}

\* NAME and NAMESPACE/NAME
TgtItems == {<<n>> : n \in TgtNames}
              \cup {<<ns, "/", n>> : ns \in TgtNamespaces, n \in TgtNames}

TgtLists == UNION {[1..k -> TgtItems] : k \in 0..MaxTargets}

TgtPods == [namespace : TgtNamespaces, owner : TgtNames,
            kind : {"DaemonSet", "ReplicaSet"}, terminating : BOOLEAN]

RECURSIVE calculateTargetsFrom(_, _, _, _)
calculateTargetsFrom(targetDaemonsets, i, namespaces, daemonsetNames) ==
    IF i > Len(targetDaemonsets)
    THEN [namespaces |-> namespaces, daemonsetNames |-> daemonsetNames]
    ELSE Bind(SplitSlash(targetDaemonsets[i]), LAMBDA nsName :
           IF Len(nsName) > 1
           THEN calculateTargetsFrom(targetDaemonsets, i + 1,
                                     namespaces \cup {nsName[1]},
                                     daemonsetNames \cup {nsName[2]})
           ELSE calculateTargetsFrom(targetDaemonsets, i + 1, namespaces,
                                     daemonsetNames \cup {nsName[1]}))

\* part_006 70-87: the two maps, as the sets of their keys
CalculateTargets(targetDaemonsets) == calculateTargetsFrom(targetDaemonsets, 1, {}, {})

TgtResult(s, outcome, err) == [n |-> s.n, outcome |-> outcome, err |-> err,
                               taints |-> s.taints]

\* part_006 101-113: the daemonsets managed by this controller in the pod's
\* namespace are added when no list is given
listManaged(s, F, in, targets) ==
    IF in.name = "" \/ Len(in.list) # 0 THEN [s |-> s, err |-> FALSE, targets |-> targets]
    ELSE Bind(Call(s, F), LAMBDA c :
           IF ~ c.ok THEN [s |-> c.w, err |-> TRUE, targets |-> targets]
           ELSE [s |-> c.w, err |-> FALSE,
                 targets |->
                   [namespaces |-> targets.namespaces
                      \cup {d.namespace : d \in {m \in in.managed :
                                                   m.namespace = in.pod.namespace}},
                    daemonsetNames |-> targets.daemonsetNames
                      \cup {d.name : d \in {m \in in.managed :
                                              m.namespace = in.pod.namespace}}]])

\* part_006 149-172: the node of the pod is fetched, tainted and patched
taintPodNode(s, F, in) ==
    Bind(Call(s, F), LAMBDA g :
      IF ~ g.ok THEN TgtResult(g.w, "handled", TRUE)
      ELSE Bind(Call(g.w, F), LAMBDA p :
             IF ~ p.ok THEN TgtResult(p.w, "handled", TRUE)
             ELSE TgtResult(
                    [p.w EXCEPT !.taints =
                       taintNode([taints |-> @], in.name).taints],
                    "handled", FALSE)))

\* PodController.Reconcile (part_006 89-173)
targetsReconcile(s, F, in) ==
    Bind(listManaged(s, F, in, CalculateTargets(in.list)), LAMBDA l :
      IF l.err THEN TgtResult(l.s, "listerror", TRUE)
      ELSE IF in.pod.namespace \notin l.targets.namespaces
      THEN TgtResult(l.s, "skip-namespace", FALSE)
      ELSE Bind(Call(l.s, F), LAMBDA g :
             IF ~ g.ok THEN TgtResult(g.w, "geterror", TRUE)
             ELSE IF in.pod.kind # "DaemonSet"
             THEN TgtResult(g.w, "skip-kind", FALSE)
             ELSE IF ~ in.pod.terminating /\ "" # in.name
             THEN TgtResult(g.w, "skip-running", FALSE)
             ELSE IF in.pod.owner \notin l.targets.daemonsetNames
             THEN TgtResult(g.w, "skip-owner", FALSE)
             ELSE taintPodNode(g.w, F, in)))

TgtIdle == [n |-> 0, outcome |-> "none", err |-> FALSE, taints |-> <<>>]

InitTargets ==
    /\ \E list \in TgtLists, pod \in TgtPods, name \in {"", ControllerName},
          managed \in SUBSET {[namespace |-> "ingress", name |-> "nginx"]} :
         tgt = [in |-> [list |-> list, pod |-> pod, name |-> name,
                        managed |-> managed],
                out |-> TgtIdle]
    /\ config = ConfigOff
    /\ nodes = [n \in NodeNames |-> ZeroNode(n)]
    /\ pods = [n \in NodeNames |-> NoPods]
    /\ attachments = [n \in NodeNames |-> NoAttachment]
    /\ registry = [n \in NodeNames |-> AllRegistered]
    /\ synced = FALSE
    /\ inflight = IdleFlight
    /\ last = IdleLast
    /\ clsIn = ClsIdle
    /\ clsOut = "none"
    /\ lnodes = <<>>
    /\ lregistry = <<>>
    /\ llast = <<>>
    /\ clast = <<>>
    /\ dsw = <<>>
    /\ mem = <<>>
    /\ cnd = <<>>
    /\ tnt = <<>>

\* the work queue hands the pod to PodController
TargetsReconcile ==
    /\ tgt.out.outcome = "none"
    /\ \E F \in TgtFaults :
         tgt' = [tgt EXCEPT !.out = targetsReconcile(TgtIdle, F, tgt.in)]
    /\ UNCHANGED <<mainVars, clsVars, labelVars, cacheVars, dsVars, mem, cnd, tnt>>

NextTargets == TargetsReconcile

SpecTargets == InitTargets /\ [][NextTargets]_vars

\* --------------------------------------------- the taint helpers on their own
\* taintNode and untaintNode applied to every list of taints of bounded
\* length.

\* Longest list of taints a node starts with.
MaxStartTaints == 3
\* Helper calls followed on one node.
MaxTaintCalls == 3

TntValues == {ControllerName, "other-detacher"}

\* the taints a node can start with
TntStartTaints ==
    {[key |-> NodeTaintKeyDetaching, value |-> "stale"],
     [key |-> NodeTaintToBeDeletedByCA, value |-> ""],
     [key |-> TaintKeyCustom, value |-> "a"]}

TntStarts == UNION {[1..k -> TntStartTaints] : k \in 0..MaxStartTaints}

InitTaints ==
    /\ \E start \in TntStarts :
         tnt = [start |-> start, taints |-> start, calls |-> 0, op |-> "none",
                value |-> "", before |-> start]
    /\ config = ConfigOff
    /\ nodes = [n \in NodeNames |-> ZeroNode(n)]
    /\ pods = [n \in NodeNames |-> NoPods]
    /\ attachments = [n \in NodeNames |-> NoAttachment]
    /\ registry = [n \in NodeNames |-> AllRegistered]
    /\ synced = FALSE
    /\ inflight = IdleFlight
    /\ last = IdleLast
    /\ clsIn = ClsIdle
    /\ clsOut = "none"
    /\ lnodes = <<>>
    /\ lregistry = <<>>
    /\ llast = <<>>
    /\ clast = <<>>
    /\ dsw = <<>>
    /\ mem = <<>>
    /\ cnd = <<>>
    /\ tgt = <<>>

\* taintNode(newNode, value)
TaintNode(value) ==
    /\ tnt.calls < MaxTaintCalls
    /\ tnt' = [tnt EXCEPT
                 !.taints = taintNode([taints |-> tnt.taints], value).taints,
                 !.calls = @ + 1,
                 !.op = "taint",
                 !.value = value,
                 !.before = tnt.taints]
    /\ UNCHANGED <<mainVars, clsVars, labelVars, cacheVars, dsVars, mem, cnd, tgt>>

\* untaintNode(node)
UntaintNode ==
    /\ tnt.calls < MaxTaintCalls
    /\ tnt' = [tnt EXCEPT
                 !.taints = untaintNode([taints |-> tnt.taints]).taints,
                 !.calls = @ + 1,
                 !.op = "untaint",
                 !.before = tnt.taints]
    /\ UNCHANGED <<mainVars, clsVars, labelVars, cacheVars, dsVars, mem, cnd, tgt>>

NextTaints ==
    \/ \E value \in TntValues : TaintNode(value)
    \/ UntaintNode

SpecTaints == InitTaints /\ [][NextTaints]_vars

\* ------------------------------------------------------------- properties

LastNode == nodes[last.g.node]

HasTaintKey(node, key) == \E i \in 1..Len(node.taints) : node.taints[i].key = key

IsDeregistration(c) == c.op \in {"DeregisterTG", "DeregisterCLB"}

IsRegistration(c) == c.op \in {"RegisterTG", "RegisterCLB"}

IsPodCall(c) == c.op \in {"EvictPod", "DeletePod"}

\* the persisted Detached flag of the record entry a registry call is about
FlagOfCall(att, c) ==
    IF c.op \in {"DeregisterTG", "RegisterTG"}
    THEN \E i \in 1..Len(att.AwsTargets) :
            /\ att.AwsTargets[i].ARN = c.arg.ARN
            /\ att.AwsTargets[i].Port = c.arg.Port
            /\ att.AwsTargets[i].Detached
    ELSE \E i \in 1..Len(att.AwsLoadBalancers) :
            /\ att.AwsLoadBalancers[i].Name = c.arg
            /\ att.AwsLoadBalancers[i].Detached

AllDetached(att) ==
    /\ \A i \in 1..Len(att.AwsTargets) : att.AwsTargets[i].Detached
    /\ \A i \in 1..Len(att.AwsLoadBalancers) : att.AwsLoadBalancers[i].Detached

\* every entry's flag says whether the instance is out of the target
FlagsAgree(att, reg) ==
    /\ \A i \in 1..Len(att.AwsTargets) :
          att.AwsTargets[i].Detached =
            ([ARN |-> att.AwsTargets[i].ARN, Port |-> att.AwsTargets[i].Port] \notin reg.tgs)
    /\ \A i \in 1..Len(att.AwsLoadBalancers) :
          att.AwsLoadBalancers[i].Detached = (att.AwsLoadBalancers[i].Name \notin reg.clbs)

\* C1: when a deregistration fails in NodeAttachments.detachNodes, every
\* entry deregistered earlier in the same call is persisted in the
\* Attachment record as detached=true before the error is returned.
C1_PartialProgressPersisted ==
    (/\ last.g.detach.called
     /\ last.g.detach.err
     /\ \E i \in 1..Len(last.g.detach.calls) :
           IsDeregistration(last.g.detach.calls[i]) /\ ~ last.g.detach.calls[i].ok)
    => \A i \in 1..Len(last.g.detach.calls) :
          (IsDeregistration(last.g.detach.calls[i]) /\ last.g.detach.calls[i].ok)
          => FlagOfCall(attachments[last.g.node], last.g.detach.calls[i])

\* C2: NodeAttachments.detachNodes on a record whose entries are all
\* detached=true makes no registry call, no node update and no record
\* update, and returns progressed=false and no error.
C2_DetachIdempotent ==
    (/\ last.g.detach.called
     /\ last.g.detach.pre.exists
     /\ AllDetached(last.g.detach.pre))
    => /\ last.g.detach.calls = <<>>
       /\ ~ last.g.detach.processed
       /\ ~ last.g.detach.err

C2_Witness ==
    /\ last.g.detach.called
    /\ last.g.detach.pre.exists
    /\ Len(last.g.detach.pre.AwsTargets) > 0
    /\ Len(last.g.detach.pre.AwsLoadBalancers) > 0
    /\ AllDetached(last.g.detach.pre)
    /\ ~ last.faulted

\* C3: after any sequence of Detach and Attach calls, failing or not, the
\* persisted detached flag of every entry of a node's Attachment record
\* equals the outcome of the last (de)registration that succeeded for it;
\* stated for the runs in which no store call failed, only registry calls.
C3_FlagsAgreeWithRegistry ==
    (/\ last.g.path # "idle"
     /\ \A i \in 1..Len(last.trace) :
           ~ last.trace[i].ok =>
              (IsDeregistration(last.trace[i]) \/ IsRegistration(last.trace[i])))
    => \A n \in NodeNames :
          attachments[n].exists => FlagsAgree(attachments[n], registry[n])

\* C4: once a detach was aborted and the node is schedulable again, the
\* reconciliations take the Attach path and every target that had been
\* deregistered is re-registered: when the Reattaching path has completed
\* without error, the node being then Attached and left alone, the instance
\* is registered with every target again.
C4_ReattachRestoresAll ==
    (last.g.path = "reattach" /\ last.g.manage /\ ~ last.err)
    => registry[last.g.node] = AllRegistered

\* C5: with attachment management enabled, a node that is not BeingDetached
\* and is observed unschedulable is deregistered from every entry of its
\* record, and the node is then persisted with detaching=true, a
\* detachment timestamp, the repel taint and no attachment timestamp.
C5_DetachingPathPersists ==
    (last.g.path = "detaching" /\ last.g.manage /\ ~ last.faulted)
    => /\ ~ last.err
       /\ attachments[last.g.node].exists
       /\ AllDetached(attachments[last.g.node])
       /\ FlagsAgree(attachments[last.g.node], registry[last.g.node])
       /\ LastNode.detaching = "true"
       /\ LastNode.detachmentTimestamp = RFC3339
       /\ LastNode.attachmentTimestamp = Absent
       /\ HasTaintKey(LastNode, NodeTaintKeyDetaching)

\* the BeingDetached markers of a node object
Markers(node) ==
    <<node.detaching, node.taints, node.detachmentTimestamp, node.attachmentTimestamp,
      node.conditions>>

C8_CATaintWins ==
    (/\ last.g.path \notin {"idle", "geterror", "notfound"}
     /\ ~ last.g.copy.unschedulable
     /\ HasTaintKey(last.g.copy, NodeTaintToBeDeletedByCA)
     /\ ~ HasTaintKey(last.g.copy, TaintKeyMaster))
    => /\ last.g.path \in {"detaching", "ensure"}
       /\ (last.g.copy.detaching # "true") => last.g.path = "detaching"

C8_Witness ==
    /\ last.g.path = "detaching"
    /\ ~ last.g.copy.unschedulable
    /\ HasTaintKey(last.g.copy, NodeTaintToBeDeletedByCA)

ClsHas(key) == \E i \in 1..Len(clsIn.taints) : clsIn.taints[i] = key

C10_MasterUntouched ==
    last.g.path = "master"
    => /\ \A i \in 1..Len(last.trace) :
             /\ ~ IsRegistration(last.trace[i])
             /\ ~ IsDeregistration(last.trace[i])
             /\ ~ IsPodCall(last.trace[i])
       /\ Markers(LastNode) = Markers(last.g.copy)

\* C11: when the node named in the request no longer exists, Reconcile
\* returns without error and without requeue, having made no registry call
\* and no write: the nodes, the pods, the Attachment records and the
\* registry are as they were before the run.
C11_NotFoundNoEffect ==
    [][last'.g.path = "notfound"
       => /\ ~ last'.err
          /\ last'.requeue = ""
          /\ last'.trace = <<>>
          /\ UNCHANGED <<nodes, attachments, registry, pods>>]_vars

C11_Witness ==
    /\ last.g.path = "notfound"
    /\ ~ nodes[last.g.node].exists
    /\ attachments[last.g.node].exists

\* the run fetched the node and went on to the dispatch
Fetched == last.g.path \notin {"idle", "geterror", "notfound"}

\* C12: a node fetched schedulable and not BeingDetached is left alone: the
\* run makes no register or deregister call, evicts or deletes no pod,
\* leaves the unschedulable flag and the taints as fetched, and returns
\* without error and without requeue.
C12_SchedulableLeftAlone ==
    (Fetched /\ nodeIsSchedulable(last.g.copy) /\ ~ nodeBeingDetached(last.g.copy))
    => /\ \A i \in 1..Len(last.trace) :
             /\ ~ IsRegistration(last.trace[i])
             /\ ~ IsDeregistration(last.trace[i])
             /\ ~ IsPodCall(last.trace[i])
       /\ LastNode.unschedulable = last.g.copy.unschedulable
       /\ LastNode.taints = last.g.copy.taints
       /\ ~ last.err
       /\ last.requeue = ""

C12_Witness ==
    /\ last.g.path = "noop"
    /\ nodeIsSchedulable(last.g.copy)
    /\ ~ nodeBeingDetached(last.g.copy)
    /\ last.g.manage
    /\ pods[last.g.node] # NoPods
    /\ attachments[last.g.node].exists

\* a step of the reconciler on the path of a node fetched BeingDetached and
\* unschedulable: the run returns, or blocks waiting for its pods
EnsureStep(n) ==
    \/ last'.g.path = "ensure" /\ last'.g.node = n
    \/ /\ ~ inflight.active /\ inflight'.active
       /\ inflight'.g.path = "ensure" /\ inflight'.g.node = n

C14_DetachRequiresRecord ==
    (last.g.manage /\ last.g.detach.called /\ ~ last.g.detach.pre.exists)
    => /\ last.g.detach.err
       /\ last.err
       /\ Markers(LastNode) = Markers(last.g.copy)

\* C15: in detachNodes every deregistration call of a target-group entry
\* comes right after a node update that succeeded, the one that sets the
\* exclude-from-balancer marker on the node fetched for it; after an update
\* that failed no deregistration is called.
C15_ExcludeBeforeDeregister ==
    last.g.detach.called
    => /\ \A i \in 1..Len(last.g.detach.calls) :
             last.g.detach.calls[i].op = "DeregisterTG"
             => /\ i > 1
                /\ last.g.detach.calls[i - 1].op = "UpdateNode"
                /\ last.g.detach.calls[i - 1].ok
       /\ \A i \in 1..Len(last.g.detach.calls) :
             (last.g.detach.calls[i].op = "UpdateNode" /\ ~ last.g.detach.calls[i].ok)
             => /\ i = Len(last.g.detach.calls)
                /\ last.g.detach.err
       /\ (\E i \in 1..Len(last.g.detach.calls) :
              last.g.detach.calls[i].op = "DeregisterTG")
            => (LastNode.exists => LastNode.excludeBalancer)

C15_Witness ==
    /\ last.g.detach.called
    /\ Cardinality({i \in 1..Len(last.g.detach.calls) :
                      last.g.detach.calls[i].op = "DeregisterTG"
                        /\ last.g.detach.calls[i].ok}) = 2
    /\ LastNode.excludeBalancer

\* the identifiers of a record: the (arn, port) of its target entries and the
\* names of its load-balancer entries, in order
Identifiers(att) ==
    [targets |-> [i \in 1..Len(att.AwsTargets) |->
                    <<att.AwsTargets[i].ARN, att.AwsTargets[i].Port>>],
     balancers |-> [i \in 1..Len(att.AwsLoadBalancers) |-> att.AwsLoadBalancers[i].Name]]

\* C19: once a node's Attachment record exists, no step changes its list of
\* target-group (arn, port) identifiers or its list of load-balancer names;
\* only the detached flags of the entries change.
C19_IdentifiersImmutable ==
    [][\A n \in NodeNames :
         attachments[n].exists
         => /\ attachments'[n].exists
            /\ Identifiers(attachments'[n]) = Identifiers(attachments[n])]_vars

IsDescribe(e) == e.op \in {"DescribeCLBs", "DescribeTGs"}

\* C16: a node passed to cacheNodeAttachments that already carries the
\* cached marker, alone or in the batch of cacheAllNodeAttachments, has its
\* Attachment record and its node object left as they were, and when every
\* node passed is cached no registry query is made.
C16_CachedNodeUntouched ==
    IsCacheCall(clast.now)
    => /\ \A n \in clast.now.batch :
             Cached(clast.now.pre.nodes[n])
             => /\ attachments[n] = clast.now.pre.attachments[n]
                /\ nodes[n] = clast.now.pre.nodes[n]
       /\ (\A n \in clast.now.batch : Cached(clast.now.pre.nodes[n]))
            => \A i \in 1..Len(clast.now.trace) : ~ IsDescribe(clast.now.trace[i])

\* C17: when a registry query fails in cacheNodeAttachments the call
\* returns the error with no Attachment record created or modified and no
\* node marked cached; and a call given a node without the cached marker
\* starts with the registry query, so the resolution is run again.
C17_ResolverFailureLeavesUncached ==
    IsCacheCall(clast.now)
    => /\ (\E i \in 1..Len(clast.now.trace) :
              IsDescribe(clast.now.trace[i]) /\ ~ clast.now.trace[i].ok)
            => /\ clast.now.err
               /\ attachments = clast.now.pre.attachments
               /\ nodes = clast.now.pre.nodes
       /\ (/\ \E n \in clast.now.batch : ~ Cached(clast.now.pre.nodes[n])
           /\ \A n \in clast.now.batch :
                 Cached(clast.now.pre.nodes[n])
                   \/ ~ getInstanceID(clast.now.pre.nodes[n]).err)
            => /\ Len(clast.now.trace) > 0
               /\ IsDescribe(clast.now.trace[1])

C17_Witness ==
    /\ clast.now.op = "cache"
    /\ \E i \in 1..Len(clast.now.trace) :
          IsDescribe(clast.now.trace[i]) /\ ~ clast.now.trace[i].ok
    /\ \E n \in clast.now.batch :
          /\ attachments[n].exists
          /\ Len(attachments[n].AwsTargets) > 0
          /\ ~ Cached(nodes[n])

\* C18: after a cache call that stopped between the write of a node's
\* record and the write of its cached marker, cacheNodeAttachments run again
\* for that node with no failing call ends without error, with the record
\* as the interrupted call wrote it, every detached=true flag of it kept,
\* and the node marked as an uninterrupted call marks it.
C18_CrashBetweenWritesIsSafe ==
    (/\ clast.prev.crash # ""
     /\ clast.now.op = "cache"
     /\ clast.now.batch = {clast.prev.crash}
     /\ ~ clast.now.faulted)
    => /\ ~ clast.now.err
       /\ attachments[clast.prev.crash] = clast.now.pre.attachments[clast.prev.crash]
       /\ \A i \in 1..Len(clast.now.pre.attachments[clast.prev.crash].AwsTargets) :
             clast.now.pre.attachments[clast.prev.crash].AwsTargets[i].Detached
             => attachments[clast.prev.crash].AwsTargets[i].Detached
       /\ Cached(nodes[clast.prev.crash])
       /\ nodes[clast.prev.crash].detaching = "true"

C18_Witness ==
    /\ clast.prev.crash # ""
    /\ clast.now.op = "cache"
    /\ clast.now.batch = {clast.prev.crash}
    /\ ~ clast.now.faulted
    /\ Len(attachments[clast.prev.crash].AwsTargets) = 2
    /\ \E i \in 1..Len(clast.now.trace) : clast.now.trace[i].op = "UpdateAttachment"

\* C20: the record a cache call builds for a node it resolves holds exactly
\* one target entry for each (target group, port) registration of the
\* node's own instance and none for another instance's; registered in one
\* target group without a port and at port 8080, the instance gets two
\* entries.
C20_OneEntryPerRegistration ==
    (IsCacheCall(clast.now) /\ ~ clast.now.err)
    => \A n \in clast.now.batch :
          ~ Cached(clast.now.pre.nodes[n])
          => /\ attachments[n].exists
             /\ {[ARN |-> attachments[n].AwsTargets[i].ARN,
                   Port |-> attachments[n].AwsTargets[i].Port] :
                     i \in 1..Len(attachments[n].AwsTargets)} = registry[n].tgs
             /\ Len(attachments[n].AwsTargets) = Cardinality(registry[n].tgs)

C20_Witness ==
    /\ clast.now.op = "cacheAll"
    /\ ~ clast.now.err
    /\ ~ Cached(clast.now.pre.nodes["n1"])
    /\ ~ Cached(clast.now.pre.nodes["n2"])
    /\ Len(attachments["n1"].AwsTargets) = 2
    /\ attachments["n1"].AwsTargets[1].ARN = attachments["n1"].AwsTargets[2].ARN
    /\ attachments["n1"].AwsTargets[1].Port # attachments["n1"].AwsTargets[2].Port
    /\ Len(attachments["n2"].AwsTargets) = 0

IsRecordCall(e) == e.op \in {"CreateAttachment", "UpdateAttachment"}

\* the node carries what the Detaching path writes
MarkedDetaching(node) ==
    /\ node.detaching = "true"
    /\ node.detachmentTimestamp = RFC3339
    /\ HasTaintKey(node, NodeTaintKeyDetaching)

FinalUpdateFailed ==
    /\ last.g.path \in {"detaching", "reattach"}
    /\ ~ last.g.detach.err /\ ~ last.g.attach.err /\ ~ last.g.podsErr
    /\ Len(last.trace) > 0
    /\ last.trace[Len(last.trace)].op = "UpdateNode"
    /\ ~ last.trace[Len(last.trace)].ok

\* C22: when the detach orchestrator, the attach orchestrator, the pod
\* deletion or the final node update fails inside Reconcile, the run
\* returns an error or a requeue request, and the node's BeingDetached
\* marker is after the run what it was when the node was fetched.
C22_ErrorsRetriedMarkerKept ==
    (/\ Fetched
     /\ \/ last.g.detach.called /\ last.g.detach.err
        \/ last.g.attach.called /\ last.g.attach.err
        \/ last.g.podsErr
        \/ FinalUpdateFailed)
    => /\ last.err \/ last.requeue # ""
       /\ LastNode.detaching = last.g.copy.detaching
       /\ nodeBeingDetached(LastNode) = nodeBeingDetached(last.g.copy)

\* the run wrote its node before its last call (the cache or an orchestrator)
WroteNodeBeforeEnd ==
    \E i \in 1..(Len(last.trace) - 1) :
        /\ last.trace[i].op = "UpdateNode"
        /\ last.trace[i].node = last.g.node
        /\ last.trace[i].ok

\* C23: the final node update of a run is based on the node as it is when
\* the update is issued: a run on the Detaching or the Reattaching path
\* whose cache or detach step wrote the node, and in which no call failed,
\* applies its final update on top of that write and returns without error.
C23_NoLostNodeUpdates ==
    (/\ last.g.path \in {"detaching", "reattach"}
     /\ WroteNodeBeforeEnd
     /\ ~ last.faulted)
    => /\ ~ last.err
       /\ last.trace[Len(last.trace)].op = "UpdateNode"
       /\ last.trace[Len(last.trace)].ok
       /\ LastNode.detaching = (IF last.g.path = "detaching" THEN "true" ELSE "false")

\* C24: a call made by the reconciliation of one node writes no other
\* node's Attachment record and no other node's object.
C24_PerNodeOwnership ==
    \A i \in 1..Len(clast.now.trace) :
        (/\ clast.now.trace[i].op \in {"CreateAttachment", "UpdateAttachment", "UpdateNode"}
         /\ clast.now.trace[i].ok)
        => clast.now.trace[i].node = clast.now.req

\* C25: every invocation of Reconcile returns: a Reconcile waiting in
\* deletePods for the pods it evicted or deleted eventually returns, whether
\* or not those pods ever disappear from the store.
C25_ReconcileTerminates == inflight.active ~> ~ inflight.active

\* a call to the registry, or a write of a node or of an Attachment record
IsRegistryOrWrite(e) ==
    \/ IsDescribe(e) \/ IsRegistration(e) \/ IsDeregistration(e)
    \/ IsRecordCall(e) \/ e.op = "UpdateNode"

\* the reconciliation last run, or the one waiting, issued none of them
Quiet ==
    /\ \A i \in 1..Len(last.trace) : ~ IsRegistryOrWrite(last.trace[i])
    /\ \A i \in 1..Len(inflight.trace) : ~ IsRegistryOrWrite(inflight.trace[i])

\* C26: for a node whose inputs no longer change and with every call
\* succeeding, the reconciliations eventually issue no registry call and no
\* write of the node or of its record, and stay so.
C26_SteadyNodeConverges == <>[]Quiet

\* C27: after the Detaching path completes, the node carries the annotation
\* detaching=true and a NodeBeingDetached condition whose status is True.
C27_MarkedByConditionAndAnnotation ==
    (last.g.path = "detaching" /\ ~ last.err)
    => /\ LastNode.detaching = "true"
       /\ "True" \in LastNode.conditions

\* in a sequence of calls, every deregistration comes before every pod call
DetachBeforePods(trace) ==
    \A i, j \in 1..Len(trace) :
        (IsDeregistration(trace[i]) /\ IsPodCall(trace[j])) => i < j

HasPodCall(trace) == \E i \in 1..Len(trace) : IsPodCall(trace[i])

\* C28: in a reconciliation, returned or waiting in deletePods, every
\* deregistration call is issued before the first pod eviction or deletion,
\* and no pod is evicted or deleted when the detach orchestrator returned an
\* error.
C28_DetachBeforePodsOffline ==
    /\ DetachBeforePods(last.trace)
    /\ DetachBeforePods(inflight.trace)
    /\ (last.g.detach.called /\ last.g.detach.err) => ~ HasPodCall(last.trace)
    /\ (inflight.g.detach.called /\ inflight.g.detach.err)
         => ~ HasPodCall(inflight.trace)

\* a reconciliation that deregistered the node and then evicted its pod
C28_Witness ==
    /\ last.g.path = "detaching"
    /\ last.g.detach.called /\ ~ last.g.detach.err
    /\ \E i, j \in 1..Len(last.trace) :
          /\ IsDeregistration(last.trace[i]) /\ last.trace[i].ok
          /\ IsPodCall(last.trace[j]) /\ last.trace[j].ok
          /\ i < j

\* C29: a node that PodController marked for a terminating or annotated
\* daemonset pod (it carries the detaching taint and is not BeingDetached
\* yet) is treated by NodeController.Reconcile as needing detachment: the
\* run that fetches it takes the Detaching path.
C29_PodTriggerDetachesNode ==
    (/\ Fetched
     /\ HasTaintKey(last.g.copy, NodeTaintKeyDetaching)
     /\ ~ nodeBeingDetached(last.g.copy)
     /\ ~ isMasterNode(last.g.copy))
    => last.g.path = "detaching"

\* the nodes whose daemonset pod is outdated and marked for detaching
MarkedOutdated ==
    {n \in DOMAIN pods :
        \E k \in 1..Len(pods[n]) :
            /\ ~ pods[n][k].gone
            /\ pods[n][k].annotated
            /\ Outdated(pods[n][k], dsw.ds)}

\* C30: of the outdated pods of a targeted OnDelete daemonset, at most one
\* is marked for detaching at any time.
C30_OneNodeAtATime == Cardinality(MarkedOutdated) <= 1

\* C31: when a reconciliation has taken an unschedulable node through the
\* Detaching path without error, every pod scheduled on the node (none of
\* the pods modelled is in kube-system), with or without a
\* deletion-priority annotation, has its deletion timestamp set or is gone.
C31_PodsRemovedFromUnschedulableNode ==
    (/\ last.g.path = "detaching"
     /\ ~ last.err
     /\ ~ nodeRequireDetached(last.g.copy))
    => \A i \in 1..Len(pods[last.g.node]) :
          pods[last.g.node][i].terminating \/ pods[last.g.node][i].gone

\* the calls of the last detachNodes that wrote, or tried to write, the record
DetachRecordWrites ==
    {i \in 1..Len(last.g.detach.calls) : IsRecordCall(last.g.detach.calls[i])}

\* the entries the last detachNodes flipped to detached: one per
\* deregistration that succeeded
DetachFlips ==
    {i \in 1..Len(last.g.detach.calls) :
        IsDeregistration(last.g.detach.calls[i]) /\ last.g.detach.calls[i].ok}

\* C32: a call of detachNodes writes the Attachment record at most once, it
\* writes it exactly when it flipped at least one entry to detached, and it
\* reports progress exactly when that write succeeded.
C32_DetachProgressReporting ==
    last.g.detach.called
    => /\ Cardinality(DetachRecordWrites) <= 1
       /\ (DetachRecordWrites # {}) <=> (DetachFlips # {})
       /\ last.g.detach.processed
            <=> \E i \in DetachRecordWrites : last.g.detach.calls[i].ok

\* C33: a reconciliation that leaves the annotation detaching=true on a node
\* it fetched without it classified the node as unschedulable, and its
\* detach orchestrator, when called, returned without error.
C33_MarkerOnlyForUnschedulable ==
    (/\ Fetched
     /\ last.g.copy.detaching # "true"
     /\ LastNode.detaching = "true")
    => /\ ~ nodeIsSchedulable(last.g.copy)
       /\ last.g.path = "detaching"
       /\ ~ last.g.detach.err

\* the deletion priority of the pod a pod call names
PriorityOf(node, name) ==
    (CHOOSE q \in SeqToSet(pods[node]) : q.name = name).pri

\* in a sequence of calls, no pod is evicted or deleted after a pod of a
\* lower priority
DecreasingPriorities(node, trace) ==
    \A i, j \in 1..Len(trace) :
        (IsPodCall(trace[i]) /\ IsPodCall(trace[j]) /\ i < j)
        => PriorityOf(node, trace[i].arg) >= PriorityOf(node, trace[j].arg)

\* C34: deletePods evicts or deletes pods in decreasing order of their
\* deletion priority, and while it waits for one level every pod it evicted
\* or deleted at an earlier level has disappeared.
C34_PriorityOrderedDeletion ==
    /\ Fetched => DecreasingPriorities(last.g.node, last.trace)
    /\ inflight.active
         => /\ DecreasingPriorities(inflight.g.node, inflight.trace)
            /\ \A i \in 1..Len(inflight.trace) :
                  (IsPodCall(inflight.trace[i]) /\ inflight.trace[i].ok)
                  => \/ inflight.trace[i].arg \in inflight.waiting
                     \/ podGone(World(nodes, attachments, registry, pods),
                                inflight.g.node, inflight.trace[i].arg)

\* C35: a node fetched with the requires-detached annotation is classified
\* unschedulable; when attachments are managed the detach orchestrator is
\* called and, every call succeeding, the node ends deregistered from every
\* recorded target; no pod of the node is evicted or deleted by the run.
C35_RequiresDetachedKeepsPods ==
    (/\ Fetched
     /\ nodeRequireDetached(last.g.copy)
     /\ ~ isMasterNode(last.g.copy))
    => /\ ~ nodeIsSchedulable(last.g.copy)
       /\ last.g.path \in {"detaching", "ensure"}
       /\ ~ HasPodCall(last.trace)
       /\ \A i \in 1..Len(pods[last.g.node]) : ~ pods[last.g.node][i].terminating
       /\ last.g.manage
            => /\ last.g.detach.called
               /\ ~ last.g.detach.err
               /\ attachments[last.g.node].exists
               /\ AllDetached(attachments[last.g.node])
               /\ FlagsAgree(attachments[last.g.node], registry[last.g.node])

\* a run that deregistered a node carrying the annotation and left its pod
C35_Witness ==
    /\ Fetched
    /\ nodeRequireDetached(last.g.copy)
    /\ last.g.manage
    /\ \E i \in 1..Len(last.g.detach.calls) :
          IsDeregistration(last.g.detach.calls[i]) /\ last.g.detach.calls[i].ok
    /\ AllDetached(attachments[last.g.node])
    /\ \E i \in 1..Len(pods[last.g.node]) :
          /\ pods[last.g.node][i].hasPri
          /\ ~ pods[last.g.node][i].terminating
          /\ ~ pods[last.g.node][i].gone

\* the detach or deregister calls of the last run for one target
MemCallsFor(kind, t) ==
    {i \in 1..Len(mem.last.trace) :
       /\ mem.last.trace[i].op = "detach"
       /\ mem.last.trace[i].node = kind
       /\ mem.last.trace[i].arg = t}

\* the last run saw the unschedulable instance for the first time and
\* returned no error
MemFirstSeen ==
    /\ mem.last.op = "detach"
    /\ mem.last.present
    /\ ~ mem.last.err
    /\ ~ mem.last.pre.asg.known

\* C36: when detachUnschedulables sees an unschedulable instance for the
\* first time and returns no error, every scaling group, load balancer and
\* target group of the instance is recorded and exactly one detach or
\* deregister call was issued for it (none for scaling groups while the node
\* carries the taint of the cluster autoscaler); a target is marked done only
\* when it was done before the run or its call of this run succeeded; and no
\* run issues a call for a target that was marked done before it.
C36_InMemoryProgress ==
    /\ MemFirstSeen
         => \A k \in MemKinds : \A t \in mem.last.preReg[k] :
               /\ mem.maps[k].known
               /\ t \in DOMAIN mem.maps[k].done
               /\ Cardinality(MemCallsFor(k, t))
                    = (IF k = "asg" /\ mem.last.ca THEN 0 ELSE 1)
    /\ mem.last.op = "detach"
         => \A k \in MemKinds :
               /\ mem.maps[k].known
                    => \A t \in DOMAIN mem.maps[k].done :
                          mem.maps[k].done[t]
                          => \/ /\ mem.last.pre[k].known
                                /\ t \in DOMAIN mem.last.pre[k].done
                                /\ mem.last.pre[k].done[t]
                             \/ \E i \in MemCallsFor(k, t) : mem.last.trace[i].ok
               /\ \A t \in MemTargets[k] :
                     MemCallsFor(k, t) # {}
                     => ~ (/\ mem.last.pre[k].known
                           /\ t \in DOMAIN mem.last.pre[k].done
                           /\ mem.last.pre[k].done[t])


\* the last Reconcile of the condition-based variant made a register call
\* or went through Nodes.attachNodes
CondReattached == cnd.last.path = "reattach"

\* C37: a Reconcile that fetches the node after a re-attach succeeded (and
\* before a later detach succeeded) does not classify the node as being
\* detached: it does not go through Attach while the node is schedulable,
\* and it takes the Detaching path when the node is unschedulable.
C37_ReattachClearsBeingDetached ==
    (/\ cnd.last.op = "reconcile"
     /\ cnd.last.fetched
     /\ cnd.last.healedBefore)
    => /\ ~ cnd.last.being
       /\ cnd.last.schedulable => ~ CondReattached
       /\ ~ cnd.last.schedulable => cnd.last.path = "detaching"


\* the item names the daemonset of the pod: NAMESPACE/NAME by both, NAME by
\* the name in the controller's own namespace
ItemMatches(item, pod) ==
    IF Len(item) = 3
    THEN item[1] = pod.namespace /\ item[3] = pod.owner
    ELSE item[1] = pod.owner /\ pod.namespace = OwnNamespace

\* C38: with a list of target daemonsets given and every call succeeding,
\* Reconcile of a terminating daemonset pod goes on to taint the pod's node
\* exactly when some item of the list matches the pod's namespace and the
\* name of its owning daemonset.
C38_TargetedByListedPair ==
    (/\ tgt.out.outcome # "none"
     /\ ~ tgt.out.err
     /\ Len(tgt.in.list) > 0
     /\ tgt.in.pod.terminating
     /\ tgt.in.pod.kind = "DaemonSet")
    => (tgt.out.outcome = "handled"
          <=> \E i \in 1..Len(tgt.in.list) : ItemMatches(tgt.in.list[i], tgt.in.pod))


\* the positions of the detaching taints in a list of taints
DetachingAt(taints) == {i \in 1..Len(taints) : taints[i].key = NodeTaintKeyDetaching}

\* the other taints of the list, in their order
OtherTaints(taints) == SelectSeq(taints, LAMBDA t : t.key # NodeTaintKeyDetaching)

\* C39: on a node that started with at most one detaching taint, after
\* taintNode the node has exactly one detaching taint and it carries the
\* value of that call; after untaintNode no detaching taint is left and the
\* other taints are the ones the node had before, in the same order.
C39_TaintHelpers ==
    /\ (tnt.op = "taint" /\ Cardinality(DetachingAt(tnt.start)) <= 1)
         => /\ Cardinality(DetachingAt(tnt.taints)) = 1
            /\ \A i \in DetachingAt(tnt.taints) : tnt.taints[i].value = tnt.value
    /\ tnt.op = "untaint"
         => /\ DetachingAt(tnt.taints) = {}
            /\ tnt.taints = OtherTaints(tnt.before)
            /\ Len(tnt.taints) = Len(tnt.before) - Cardinality(DetachingAt(tnt.before))

\* a node that started with a stale detaching taint between two other
\* taints was tainted twice, had one detaching taint with the value of the
\* second call, and was then untainted
C39_Witness ==
    /\ tnt.op = "untaint"
    /\ tnt.calls = 3
    /\ Len(tnt.start) = 3
    /\ DetachingAt(tnt.start) = {2}
    /\ DetachingAt(tnt.before) = {2}
    /\ tnt.before[2].value = tnt.value
    /\ tnt.value \in TntValues
    /\ tnt.taints = <<tnt.start[1], tnt.start[3]>>

\* the targets recorded on the node by its labels
RecordedKeys(node) == {k \in DOMAIN node.labels : k # NodeKeyLabeled}

====
